---- MODULE Spec2Model ----
(***************************************************************************)
(* powerreader: the MQTT ingestion pipeline (mqtt.py), the store writes    *)
(* (db.py) and the aggregation engine (aggregation.py) as a state machine. *)
(*                                                                         *)
(* Text is a sequence of one-character strings, so that truncation,        *)
(* control-character stripping, splitting and pattern matching are         *)
(* computed as the code computes them.  A nullable value is None (the      *)
(* empty tuple) or Some(x) (the one-element tuple).                        *)
(***************************************************************************)
EXTENDS Integers, Sequences, FiniteSets, TLC

\* ------------------------------------------------------------------ bounds
\* Messages delivered to _on_message in one behaviour of the handler model.
MaxMsgs == 3
\* Messages delivered in one behaviour of the model that runs the event loop.
MaxLoopMsgs == 2
\* The monotonic clock stops advancing at this value (seconds).
MaxClock == 120
\* Rows of raw_readings in the aggregation model.
MaxReadings == 3
\* Completed runs of compute_hourly_agg in a row, without a change to
\* raw_readings in between, in the aggregation model.
MaxRuns == 3
\* In the daily model: completed runs of compute_hourly_agg in a row, and
\* completed runs of compute_daily_agg in a row.
MaxHourlyRunsDaily == 1
MaxDailyRuns == 2
\* Messages delivered and ticks of the jobs in the store model.
MaxStoreMsgs == 1
MaxStoreTicks == 1
MaxStatReadings == 3
MaxCoverageReadings == 2

\* Messages delivered in the topic model.
MaxTopicMsgs == 1

\* Messages delivered in the parsing model.
MaxParseMsgs == 1

\* Ticks of the scheduler's jobs, all jobs together.
MaxTicks == 4

\* In the pruning model: rows in raw_readings, rows in mqtt_log; the system
\* clock stops advancing at MaxWall (hours, 2024-01-16 13:00).
MaxPruneRows == 2
MaxPruneLogs == 1
MaxWall == 373

\* APScheduler's default max_instances, which setup_scheduler leaves as it is.
MAX_INSTANCES == 1

\* --------------------------------------------------------------- nullable
None == <<>>
Some(x) == <<x>>
IsNone(o) == o = <<>>
Val(o) == o[1]

\* ------------------------------------------------------------------- text
Digits == {"0", "1", "2", "3", "4", "5", "6", "7", "8", "9"}

\* _CONTROL_CHAR_RE = [\x00-\x1f\x7f]; the two members the inputs use.
ControlChars == {"\t", "\n"}

\* The k-th smallest member of a set of positions.
KthOf(idx, k) == CHOOSE i \in idx : Cardinality({j \in idx : j < i}) = k - 1

\* _CONTROL_CHAR_RE.sub("", s)
StripControl(s) == SelectSeq(s, LAMBDA c : c \notin ControlChars)

Truncate(s, max_len) == IF Len(s) <= max_len THEN s ELSE SubSeq(s, 1, max_len)

\* A _sanitize that removes the control characters before it truncates.
Sanitize_StripFirst(value, max_len) == Truncate(StripControl(value), max_len)

\* _sanitize: value[:max_len], then the control characters removed.
Sanitize(value, max_len) == StripControl(Truncate(value, max_len))

\* str.split(sep): the segments between the separators (always at least one).
Split(s, sep) ==
    LET at == {i \in 1..Len(s) : s[i] = sep}
        n  == Cardinality(at)
    IN  [k \in 1..(n + 1) |->
            SubSeq(s, IF k = 1 THEN 1 ELSE KthOf(at, k - 1) + 1,
                      IF k = n + 1 THEN Len(s) ELSE KthOf(at, k) - 1)]

\* sep.join(parts)
RECURSIVE Join(_, _)
Join(parts, sep) ==
    IF parts = <<>> THEN <<>>
    ELSE IF Len(parts) = 1 THEN parts[1]
    ELSE parts[1] \o sep \o Join(Tail(parts), sep)

DigitChar(d) ==
    CASE d = 0 -> "0" [] d = 1 -> "1" [] d = 2 -> "2" [] d = 3 -> "3"
      [] d = 4 -> "4" [] d = 5 -> "5" [] d = 6 -> "6" [] d = 7 -> "7"
      [] d = 8 -> "8" [] d = 9 -> "9"

RECURSIVE NatStr(_)
NatStr(n) == IF n < 10 THEN <<DigitChar(n)>> ELSE NatStr(n \div 10) \o <<DigitChar(n % 10)>>

\* str() of a float holding a whole number, as the f-strings of the summary
\* print it: 538.0 -> "538.0", -5.0 -> "-5.0".
FloatStr(v) == (IF v < 0 THEN <<"-">> \o NatStr(-v) ELSE NatStr(v)) \o <<".", "0">>

\* --------------------------------------------------------------- mqtt.py
\* The whitespace str.strip() removes; the members the inputs use.
Whitespace == {" ", "\t", "\n"}

RECURSIVE StripLeft(_)
StripLeft(s) ==
    IF s # <<>> /\ Head(s) \in Whitespace THEN StripLeft(Tail(s)) ELSE s

RECURSIVE StripRight(_)
StripRight(s) ==
    IF s # <<>> /\ s[Len(s)] \in Whitespace THEN StripRight(SubSeq(s, 1, Len(s) - 1)) ELSE s

\* str.strip()
Strip(s) == StripRight(StripLeft(s))

\* A parse_allowed_devices that keeps the entries as they are written.
ParseAllowedDevices_Unstripped(raw) ==
    LET parts == Split(raw, ",")
    IN  {parts[i] : i \in 1..Len(parts)}

\* parse_allowed_devices: the stripped, non-blank entries between the commas.
ParseAllowedDevices(raw) ==
    IF Strip(raw) = <<>> THEN {}
    ELSE LET parts == Split(raw, ",")
         IN  {Strip(parts[i]) : i \in {j \in 1..Len(parts) : Strip(parts[j]) # <<>>}}

\* A pattern that also lets the empty string through.
TimestampMatches_OrEmpty(s) ==
    \/ Len(s) = 0
    \/ /\ Len(s) >= 19
       /\ \A i \in {1, 2, 3, 4, 6, 7, 9, 10, 12, 13, 15, 16, 18, 19} : s[i] \in Digits
       /\ s[5] = "-" /\ s[8] = "-" /\ s[11] = "T" /\ s[14] = ":" /\ s[17] = ":"

\* _TIMESTAMP_RE = ^\d{4}-\d{2}-\d{2}T\d{2}:\d{2}:\d{2}, matched as a prefix.
TimestampMatches(s) ==
    /\ Len(s) >= 19
    /\ \A i \in {1, 2, 3, 4, 6, 7, 9, 10, 12, 13, 15, 16, 18, 19} : s[i] \in Digits
    /\ s[5] = "-" /\ s[8] = "-" /\ s[11] = "T" /\ s[14] = ":" /\ s[17] = ":"

\* DEFAULT_FIELD_MAP, each dotted path already split on ".".
DEFAULT_FIELD_MAP ==
    [total_in  |-> <<"LK13BE", "total">>,
     total_out |-> <<"LK13BE", "total_out">>,
     power_w   |-> <<"LK13BE", "current">>,
     voltage   |-> <<"LK13BE", "voltage_l1">>]

(* A decoded JSON value is a record with a tag t:
     "num"    a number that float() converts, field v
     "text"   a string that float() rejects (ValueError)
     "nan", "inf"   a non-finite number (or its spelling in a string)
     "bigint" an integer too large for float() (OverflowError)
     "arr"    a list
     "null"   null
     "obj"    an object, field m: a function from its keys to values
     "str"    the Time string, field s                                      *)
JNum(v) == [t |-> "num", v |-> v]
JObj(m) == [t |-> "obj", m |-> m]
JStr(s) == [t |-> "str", s |-> s]
JTag(t) == [t |-> t]

\* dict.get(key): None when the key is absent.
Get(obj, key) == IF key \in DOMAIN obj.m THEN Some(obj.m[key]) ELSE None

\* The walk of _resolve_dotted: None as soon as the current value is no dict.
RECURSIVE Walk(_, _)
Walk(current, parts) ==
    IF parts = <<>> THEN current
    ELSE IF IsNone(current) \/ Val(current).t # "obj" THEN None
    ELSE Walk(Get(Val(current), Head(parts)), Tail(parts))

\* Whether _resolve_dotted lets an exception out: float() of an integer
\* beyond the float range raises OverflowError, which it does not catch.
ResolveRaises(data, path) ==
    LET current == Walk(Some(data), path)
    IN  ~IsNone(current) /\ Val(current).t = "bigint"

\* _resolve_dotted, where it returns: the float, or None.
ResolveDotted(data, path) ==
    LET current == Walk(Some(data), path)
    IN  IF IsNone(current) THEN None
        ELSE IF Val(current).t = "num" THEN Some(Val(current).v)
        ELSE None

EXC_OVERFLOW == <<"i","n","t"," ","t","o","o"," ","l","a","r","g","e"," ","t","o"," ","c","o","n","v","e","r","t"," ","t","o"," ","f","l","o","a","t">>

(* parse_tasmota_message.  A payload is "garbage" (json.loads raises
   JSONDecodeError) or the JSON value it decodes to.  The result is
   [kind |-> "none"], [kind |-> "raise", exc |-> message] or
   [kind |-> "dict", timestamp, total_in, total_out, power_w, voltage].     *)
ParseTasmotaMessage(payload, field_map) ==
    IF payload.t = "garbage" THEN [kind |-> "none"]
    ELSE IF payload.t # "obj" THEN [kind |-> "none"]
    ELSE LET time == Get(payload, "Time")
         IN  IF IsNone(time) \/ Val(time).t = "null" THEN [kind |-> "none"]
             \* str() of a Time that is no string never matches the pattern
             ELSE IF Val(time).t # "str" THEN [kind |-> "none"]
             ELSE LET timestamp == Sanitize(Val(time).s, 32)
                  IN  IF ~TimestampMatches(timestamp) THEN [kind |-> "none"]
                      ELSE IF \E k \in DOMAIN field_map : ResolveRaises(payload, field_map[k])
                           THEN [kind |-> "raise", exc |-> EXC_OVERFLOW]
                      ELSE [kind      |-> "dict",
                            timestamp |-> timestamp,
                            total_in  |-> ResolveDotted(payload, field_map.total_in),
                            total_out |-> ResolveDotted(payload, field_map.total_out),
                            power_w   |-> ResolveDotted(payload, field_map.power_w),
                            voltage   |-> ResolveDotted(payload, field_map.voltage)]

\* extract_device_id
ExtractDeviceId(topic) ==
    LET t     == Sanitize(topic, 256)
        parts == Split(t, "/")
        raw   == IF Len(parts) >= 3 THEN parts[2] ELSE t
    IN  Sanitize(raw, 64)

\* An allowlist check that lets every device through.
NotAllowed_Never(allowed, device_id) == FALSE

\* The allowlist check of _on_message: TRUE when the message is dropped.
NotAllowed(allowed, device_id) ==
    allowed # {} /\ device_id \notin allowed

\* A downsample check that still skips at exactly 60 seconds.
DownsampleSkips_Le(mode, last, now) ==
    mode = "downsample_60s" /\ ~IsNone(last) /\ now - Val(last) <= 60

\* The downsample check of _on_message: TRUE when the message is skipped.
DownsampleSkips(mode, last, now) ==
    mode = "downsample_60s" /\ ~IsNone(last) /\ now - Val(last) < 60

\* The summary of _on_message: the parts joined by ", ", sanitized to 256.
BuildSummary(parsed) ==
    LET parts ==
            (IF IsNone(parsed.power_w) THEN <<>>
             ELSE <<FloatStr(Val(parsed.power_w)) \o <<"W">>>>)
         \o (IF IsNone(parsed.total_in) THEN <<>>
             ELSE <<FloatStr(Val(parsed.total_in)) \o <<"k", "W", "h">>>>)
         \o (IF IsNone(parsed.voltage) THEN <<>>
             ELSE <<FloatStr(Val(parsed.voltage)) \o <<"V">>>>)
    IN  IF parts = <<>> THEN None ELSE Some(Sanitize(Join(parts, <<",", " ">>), 256))

UNPARSEABLE == <<"u","n","p","a","r","s","e","a","b","l","e"," ","p","a","y","l","o","a","d">>


\* ------------------------------------------------------------------ inputs
\* A number below 100 as two digits.
Pad2(n) == <<DigitChar(n \div 10), DigitChar(n % 10)>>

M1 == <<"m", "1">>
M2 == <<"m", "2">>
TOPIC_M1 == <<"t", "/", "m", "1", "/", "S">>
TOPIC_M2 == <<"t", "/", "m", "2", "/", "S">>
\* Topic bytes that are no UTF-8: "?" stands for the undecodable byte.
TOPIC_BAD == <<"t", "/", "?", "/", "S">>
TS_10_00 == <<"2","0","2","4","-","0","1","-","1","5","T","1","0",":","0","0",":","0","0">>

\* A Tasmota SENSOR payload with a valid Time and the LK13BE fields given.
SensorPayload(time, fields) == JObj([Time |-> JStr(time), LK13BE |-> JObj(fields)])

PAYLOAD_OK      == SensorPayload(TS_10_00, [total |-> JNum(7), current |-> JNum(5)])
PAYLOAD_GARBAGE == JTag("garbage")
PAYLOAD_BIGINT  == SensorPayload(TS_10_00, [total |-> JTag("bigint")])

(* A delivered message: the topic bytes, whether they decode as UTF-8 (paho's
   msg.topic raises UnicodeDecodeError when they do not) and the payload.   *)
Msg(topic, utf8, payload) == [topic |-> topic, utf8 |-> utf8, payload |-> payload]

Messages ==
    {Msg(TOPIC_M1, TRUE, PAYLOAD_OK), Msg(TOPIC_M1, TRUE, PAYLOAD_GARBAGE),
     Msg(TOPIC_M1, TRUE, PAYLOAD_BIGINT),
     Msg(TOPIC_M2, TRUE, PAYLOAD_OK), Msg(TOPIC_M2, TRUE, PAYLOAD_GARBAGE),
     Msg(TOPIC_M2, TRUE, PAYLOAD_BIGINT),
     Msg(TOPIC_BAD, FALSE, PAYLOAD_OK)}

\* The messages of the model that runs the event loop: every way a call of
\* _on_message can end, on either device.
LoopMessages ==
    {Msg(TOPIC_M1, TRUE, PAYLOAD_OK), Msg(TOPIC_M1, TRUE, PAYLOAD_GARBAGE),
     Msg(TOPIC_M2, TRUE, PAYLOAD_OK), Msg(TOPIC_M2, TRUE, PAYLOAD_BIGINT),
     Msg(TOPIC_BAD, FALSE, PAYLOAD_OK)}

\* Time values: a valid one followed by a fraction and a zone (40
\* characters), one with a control character inside, one behind fourteen
\* control characters (33 characters), and three that match nothing.
TIME_LONG == TS_10_00 \o <<".">> \o [i \in 1..14 |-> "0"] \o <<"+","0","1",":","0","0">>
TIME_CTRL_INSIDE == SubSeq(TS_10_00, 1, 10) \o <<"\n">> \o SubSeq(TS_10_00, 11, 19)
TIME_CTRL_PAD == [i \in 1..14 |-> "\t"] \o TS_10_00
TIME_SHORT == SubSeq(TS_10_00, 1, 18)
TIME_SPACE == [TS_10_00 EXCEPT ![11] = " "]
TIME_TEXT == <<"n", "o", "w">>
TIME_EMPTY == <<>>

\* The payloads of the parsing model: what json.loads rejects, what is no
\* object, every kind of Time, and with a valid Time every kind of field.
ParsePayloads ==
    {PAYLOAD_GARBAGE, JTag("arr"), JNum(5),
     JObj([LK13BE |-> JObj([total |-> JNum(7)])]),
     JObj([Time |-> JNum(5), LK13BE |-> JObj([total |-> JNum(7)])]),
     JObj([Time |-> JTag("null"), LK13BE |-> JObj([total |-> JNum(7)])])}
    \cup {SensorPayload(t, [total |-> JNum(7)]) :
            t \in {TIME_LONG, TIME_CTRL_INSIDE, TIME_CTRL_PAD, TIME_SHORT,
                   TIME_SPACE, TIME_TEXT, TIME_EMPTY}}
    \cup {SensorPayload(TS_10_00, [total |-> v, current |-> JNum(5)]) :
            v \in {JNum(7), JTag("text"), JTag("nan"), JTag("inf"), JTag("arr"),
                   JTag("null"), JTag("bigint")}}
    \cup {JObj([Time |-> JStr(TS_10_00)]),
          JObj([Time |-> JStr(TS_10_00), LK13BE |-> JTag("text")]),
          JObj([Time |-> JStr(TS_10_00), LK13BE |-> JNum(7)]),
          JObj([Time |-> JStr(TS_10_00), total |-> JNum(7)])}

ParseMessages == {Msg(TOPIC_M1, TRUE, p) : p \in ParsePayloads}

\* Topics: two segments, one segment, four segments, an empty middle
\* segment, a control character in the device segment, a device segment of
\* 70 characters, and a first segment of 258 characters before /m1/S.
TOPIC_TWO == <<"t", "/", "m", "1">>
TOPIC_ONE == <<"m", "1">>
TOPIC_FOUR == <<"t", "/", "m", "1", "/", "S", "/", "x">>
TOPIC_EMPTY_ID == <<"t", "/", "/", "S">>
TOPIC_CTRL == <<"t", "/", "m", "\n", "1", "/", "S">>
TOPIC_LONG_ID == <<"t", "/">> \o [i \in 1..70 |-> "a"] \o <<"/", "S">>
TOPIC_LONG_HEAD == [i \in 1..258 |-> "a"] \o <<"/", "m", "1", "/", "S">>

Topics ==
    {TOPIC_M1, TOPIC_M2, TOPIC_TWO, TOPIC_ONE, TOPIC_FOUR, TOPIC_EMPTY_ID,
     TOPIC_CTRL, TOPIC_LONG_ID, TOPIC_LONG_HEAD}

\* The messages of the topic model: every topic with a payload that is
\* stored, one that is unparseable and one that makes the parse raise.
TopicMessages ==
    {Msg(t, TRUE, p) : t \in Topics, p \in {PAYLOAD_OK, PAYLOAD_GARBAGE, PAYLOAD_BIGINT}}

\* Values of the allowed_devices setting: empty, blank, one id, two ids
\* with blanks around them, empty entries only, an id and empty entries.
AllowedSettings ==
    {<<>>, <<" ", " ">>, M1, <<" ">> \o M1 \o <<" ", ",", " ">> \o M2,
     <<",", " ", ",">>, M2 \o <<",", ",">>}

\* A reading of two days before TS_10_00.
TS_OLD == <<"2","0","2","4","-","0","1","-","1","3","T","1","0",":","0","0",":","0","0">>

\* The messages of the store model: a reading and an unparseable payload.
\* The deliveries of the gate model and how many of them there are.
GateMessages == {Msg(TOPIC_M1, TRUE, PAYLOAD_OK), Msg(TOPIC_M2, TRUE, PAYLOAD_OK)}
MaxGateMsgs == 2

StoreMessages == {Msg(TOPIC_M1, TRUE, PAYLOAD_OK)}

Devices == {M1, M2}

\* Seconds the monotonic clock may advance between two deliveries.
Advances == {59, 60}

TS_10_20 == <<"2","0","2","4","-","0","1","-","1","5","T","1","0",":","2","0",":","0","0">>
TS_11_00 == <<"2","0","2","4","-","0","1","-","1","5","T","1","1",":","0","0",":","0","0">>
\* Passes _TIMESTAMP_RE and is no date: month 13.
TS_MONTH_13 == <<"2","0","2","4","-","1","3","-","1","5","T","1","0",":","0","0",":","0","0">>

TS_NEXT_DAY == <<"2","0","2","4","-","0","1","-","1","6","T","1","0",":","0","0",":","0","0">>

\* The insert_reading calls of the daily model, in the order in which the
\* readings arrive.
DailyReadings ==
    <<<<M1, TS_10_00, Some(1)>>, <<M2, TS_10_00, Some(2)>>, <<M1, TS_10_20, Some(3)>>,
      <<M1, TS_11_00, Some(4)>>, <<M1, TS_NEXT_DAY, Some(6)>>>>

\* The place of a stored reading in DailyReadings.
ReadingIndex(r) ==
    CHOOSE i \in 1..Len(DailyReadings) :
        DailyReadings[i] = <<r.device_id, r.timestamp, r.total_in>>

\* The system clock when the model starts: 2024-01-15 12:00 UTC.
WallStart == 348

\* The insert_reading calls of the pruning model.
PruneReadings ==
    {<<M1, TS_OLD, Some(0)>>, <<M1, TS_10_00, Some(1)>>, <<M1, TS_NEXT_DAY, Some(6)>>}

\* The insert_reading calls of the model of pruning between rollups: two
\* readings of one hour two days back, two of one hour of today,
TS_OLD_20 == [TS_OLD EXCEPT ![15] = "2"]
\* in the order in which they arrive.
ErodeReadings ==
    <<<<M1, TS_OLD, Some(0)>>, <<M1, TS_OLD_20, Some(2)>>,
      <<M1, TS_10_00, Some(5)>>, <<M1, TS_10_20, Some(6)>>>>
ErodeIndex(r) ==
    CHOOSE i \in 1..Len(ErodeReadings) :
        ErodeReadings[i] = <<r.device_id, r.timestamp, r.total_in>>
MaxErodeRows == 3
MaxErodeRuns == 2
MaxErodeIds == 3

\* Local time minus UTC (hours) of the processes of the pruning model.
TzOffsets == {0, 1}

\* The retention_days of the pruning model.
RetentionDays == {1, 2}

\* Hours the system clock advances by in one step.
WallAdvances == {12, 13}

\* setup_scheduler's job ids.
JobIds == {"hourly_agg", "daily_agg", "prune_raw", "prune_mqtt_log"}

\* A job as add_job leaves it: in the job store, no instance running; the
\* counters are history.
NewJob == [scheduled |-> TRUE, instances |-> 0, started |-> 0, skipped |-> 0,
           done |-> 0, failed |-> 0]

\* The insert_reading calls of the aggregation model: device, timestamp,
\* total_in.
Readings ==
    {<<M1, TS_10_00, Some(1)>>, <<M1, TS_10_20, Some(3)>>, <<M1, TS_11_00, Some(4)>>,
     <<M1, TS_10_20, None>>, <<M2, TS_10_00, Some(2)>>, <<M1, TS_MONTH_13, Some(1)>>}

TS_2023 == <<"2","0","2","3","-","1","2","-","3","1","T","2","3",":","5","9",":","0","0">>
TS_2025 == <<"2","0","2","5","-","0","1","-","0","1","T","0","0",":","0","0",":","0","0">>

\* The insert_reading calls of the reporting model: device, timestamp and
\* total_in, which here counts thousandths of a kWh (1000.004 kWh is
\* 1000004).
StatReadings ==
    {<<M1, TS_2023, Some(1000000)>>, <<M1, TS_10_00, Some(1000004)>>,
     <<M1, TS_NEXT_DAY, Some(1000130)>>, <<M1, TS_2025, Some(1000139)>>,
     <<M1, TS_11_00, None>>, <<M2, TS_10_00, Some(500)>>}

\* The insert_reading calls of the coverage model.
CoverageReadings ==
    {<<M1, TS_10_00, Some(1)>>, <<M1, TS_NEXT_DAY, Some(2)>>, <<M2, TS_10_00, Some(1)>>}

\* The year argument of get_consumption_stats.
StatYears == {2024, 2025}

\* The days of the hourly_agg tables the reporting model starts with.
DAY_1 == <<"2","0","2","4","-","0","1","-","1","5">>
DAY_2 == <<"2","0","2","4","-","0","1","-","1","6">>

\* hour = strftime('%Y-%m-%dT%H', timestamp) of hour h of a day.
HourText(day, h) == day \o <<"T">> \o Pad2(h)

\* The hourly_agg rows compute_hourly_agg left for a device and the given
\* hours of a day: three readings in a bucket, two in those of thin, each
\* bucket 0.001 kWh.
DayBuckets(device_id, day, hours, thin, first_id) ==
    {[id               |-> first_id + h,
      device_id        |-> device_id,
      hour             |-> HourText(day, h),
      avg_power_w      |-> Some(1000),
      kwh_consumed     |-> Some(1),
      reading_count    |-> IF h \in thin THEN 2 ELSE 3,
      coverage_seconds |-> None] : h \in hours}

\* The hourly_agg tables the reporting model starts with (the raw readings
\* they were computed from are pruned): none; a whole day; a day with one
\* thin bucket; a day without its last hour; two whole days; a whole day
\* and one hour of the next; a day whose last hour is another device's.
CoverageTables ==
    {{},
     DayBuckets(M1, DAY_1, 0..23, {}, 1),
     DayBuckets(M1, DAY_1, 0..23, {7}, 1),
     DayBuckets(M1, DAY_1, 0..22, {}, 1),
     DayBuckets(M1, DAY_1, 0..23, {}, 1) \cup DayBuckets(M1, DAY_2, 0..23, {}, 25),
     DayBuckets(M1, DAY_1, 0..23, {}, 1) \cup DayBuckets(M1, DAY_2, {10}, {}, 15),
     DayBuckets(M1, DAY_1, 0..22, {}, 1) \cup DayBuckets(M2, DAY_1, {23}, {}, 1)}

\* ------------------------------------------------------------------- state
VARIABLES
    poll_store_mode,   \* Settings.poll_store_mode
    allowed_devices,   \* MqttSubscriber._allowed_devices
    allowed_setting,   \* Settings.allowed_devices, the text it was parsed from
    clock,             \* time.monotonic()
    last_stored,       \* MqttSubscriber._last_stored: device id -> nullable time
    handled,           \* history: the messages _on_message was called with, the
                       \* time and end of each call, and whether a store
                       \* write had failed before it
    delivery,          \* the transport's delivery thread: "running" | "crashed"
    tasks,             \* the coroutines handed to the event loop, in order
    writer,            \* index of the task holding SQLite's write lock, or 0
    raw_readings,      \* table raw_readings: a set of rows
    mqtt_log,          \* table mqtt_log: a set of rows
    hourly_agg,        \* table hourly_agg: a set of rows
    hourly_columns,    \* the columns of table hourly_agg in the database file
    last_op,           \* history: the store operation that ran last
    hourly_runs,       \* history: completed runs of compute_hourly_agg since
                       \* raw_readings last changed
    daily_agg,         \* table daily_agg: a set of rows
    daily_columns,     \* the columns of table daily_agg in the database file
    daily_runs,        \* history: completed runs of compute_daily_agg since
                       \* hourly_agg was last written
    wall,              \* the system clock: whole hours since 2024-01-01 00:00 UTC
    tz_offset,         \* the process's local time minus UTC, in hours
    retention_days,    \* Settings.raw_retention_days
    returned,          \* history: what the last aggregation or pruning call
                       \* returned (None when it raised)
    jobs               \* the scheduler's jobs: job id -> its record

config_vars == <<poll_store_mode, allowed_devices, allowed_setting>>
delivery_vars == <<clock, last_stored, handled, delivery>>
ingest_store_vars == <<writer, mqtt_log>>
agg_vars == <<hourly_agg, hourly_columns, last_op, hourly_runs, daily_agg,
              daily_columns, daily_runs, returned>>
env_vars == <<wall, tz_offset, retention_days>>
vars == <<poll_store_mode, allowed_devices, allowed_setting, clock, last_stored, handled, delivery,
          tasks, writer, raw_readings, mqtt_log, hourly_agg, hourly_columns,
          last_op, hourly_runs, daily_agg, daily_columns, daily_runs, wall,
          tz_offset, retention_days, returned, jobs>>

\* ------------------------------------------------------------ _on_message
\* The arguments of an insert_reading_and_log call made by _on_message.
ReadingAndLogCoro(device_id, parsed, summary, topic) ==
    [op          |-> "insert_reading_and_log",
     device_id   |-> device_id,
     timestamp   |-> Some(parsed.timestamp),
     total_in    |-> parsed.total_in,
     total_out   |-> parsed.total_out,
     power_w     |-> parsed.power_w,
     voltage     |-> parsed.voltage,
     log_status  |-> "ok",
     log_summary |-> summary,
     log_topic   |-> Some(topic)]

\* An insert_mqtt_log call that loses the status it was given.
LogCoro_StatusOk(device_id, status, summary, topic) ==
    [op          |-> "insert_mqtt_log",
     device_id   |-> device_id,
     timestamp   |-> None,
     total_in    |-> None,
     total_out   |-> None,
     power_w     |-> None,
     voltage     |-> None,
     log_status  |-> "ok",
     log_summary |-> summary,
     log_topic   |-> topic]

\* The arguments of an insert_mqtt_log call.
LogCoro(device_id, status, summary, topic) ==
    [op          |-> "insert_mqtt_log",
     device_id   |-> device_id,
     timestamp   |-> None,
     total_in    |-> None,
     total_out   |-> None,
     power_w     |-> None,
     voltage     |-> None,
     log_status  |-> status,
     log_summary |-> summary,
     log_topic   |-> topic]

\* Reading msg.topic raises when the topic bytes are not UTF-8.
TopicRaises(msg) == ~msg.utf8

(* _on_message on one message: what it does to _last_stored, the coroutines it
   hands to _async_execute (none or one) and how the call ends:
     "escaped"  an exception left _on_message
     "dropped"  the allowlist return
     "invalid"  the unparseable-payload return
     "skipped"  the downsample return
     "stored"   insert_reading_and_log scheduled
     "error"    the except branch scheduled its log entry                    *)
OnMessageResult(msg, now, last, mode, allowed) ==
    IF TopicRaises(msg)
    THEN \* line 197 raises; the except branch reads msg.topic again (line 251)
         [outcome |-> "escaped", submit |-> <<>>, last |-> last]
    ELSE
    LET device_id == ExtractDeviceId(msg.topic) IN
    IF NotAllowed(allowed, device_id)
    THEN [outcome |-> "dropped", submit |-> <<>>, last |-> last]
    ELSE
    LET parsed == ParseTasmotaMessage(msg.payload, DEFAULT_FIELD_MAP) IN
    IF parsed.kind = "raise"
    THEN [outcome |-> "error",
          submit  |-> <<LogCoro(Some(ExtractDeviceId(msg.topic)), "error",
                                Some(parsed.exc), Some(msg.topic))>>,
          last    |-> last]
    ELSE IF parsed.kind = "none"
    THEN [outcome |-> "invalid",
          submit  |-> <<LogCoro(Some(device_id), "invalid", Some(UNPARSEABLE),
                                Some(msg.topic))>>,
          last    |-> last]
    ELSE IF DownsampleSkips(mode, last[device_id], now)
    THEN [outcome |-> "skipped", submit |-> <<>>, last |-> last]
    ELSE [outcome |-> "stored",
          submit  |-> <<ReadingAndLogCoro(device_id, parsed, BuildSummary(parsed),
                                          msg.topic)>>,
          last    |-> [last EXCEPT ![device_id] = Some(now)]]

\* _async_execute: run_coroutine_threadsafe appends the coroutine to the
\* loop's queue (self._loop is set by start() before any delivery).
AsyncExecute(queue, coro, msg_index) ==
    Append(queue, [coro |-> coro, msg |-> msg_index, pc |-> "queued",
                   rid |-> 0, lid |-> 0])

\* A handler whose downsample return also records the time of the rejected
\* message.
OnMessage_SkipExtends(msg) ==
    /\ delivery = "running"
    /\ LET r == OnMessageResult(msg, clock, last_stored, poll_store_mode, allowed_devices)
           k == Len(handled) + 1
       IN  /\ handled' = Append(handled,
                [msg |-> msg, now |-> clock, outcome |-> r.outcome,
                 after_failure |-> \E i \in 1..Len(tasks) : tasks[i].pc = "failed"])
           /\ last_stored' = IF r.outcome = "skipped"
                              THEN [last_stored EXCEPT ![ExtractDeviceId(msg.topic)] = Some(clock)]
                              ELSE r.last
           /\ tasks' = IF r.submit = <<>> THEN tasks ELSE AsyncExecute(tasks, r.submit[1], k)
           /\ delivery' = IF r.outcome = "escaped" THEN "crashed" ELSE delivery
    /\ UNCHANGED <<config_vars, clock, writer, raw_readings, mqtt_log, agg_vars, env_vars, jobs>>

\* A handler that keeps one last-stored time for all devices.
OnMessage_SharedGate(msg) ==
    /\ delivery = "running"
    /\ LET r == OnMessageResult(msg, clock, last_stored, poll_store_mode, allowed_devices)
           k == Len(handled) + 1
       IN  /\ handled' = Append(handled,
                [msg |-> msg, now |-> clock, outcome |-> r.outcome,
                 after_failure |-> \E i \in 1..Len(tasks) : tasks[i].pc = "failed"])
           /\ last_stored' = IF r.outcome = "stored"
                              THEN [d \in Devices |-> Some(clock)]
                              ELSE r.last
           /\ tasks' = IF r.submit = <<>> THEN tasks ELSE AsyncExecute(tasks, r.submit[1], k)
           /\ delivery' = IF r.outcome = "escaped" THEN "crashed" ELSE delivery
    /\ UNCHANGED <<config_vars, clock, writer, raw_readings, mqtt_log, agg_vars, env_vars, jobs>>

OnMessage(msg) ==
    /\ delivery = "running"
    /\ LET r == OnMessageResult(msg, clock, last_stored, poll_store_mode, allowed_devices)
           k == Len(handled) + 1
       IN  /\ handled' = Append(handled,
                [msg |-> msg, now |-> clock, outcome |-> r.outcome,
                 after_failure |-> \E i \in 1..Len(tasks) : tasks[i].pc = "failed"])
           /\ last_stored' = r.last
           /\ tasks' = IF r.submit = <<>> THEN tasks ELSE AsyncExecute(tasks, r.submit[1], k)
           \* paho re-raises what on_message raises: the network thread ends
           /\ delivery' = IF r.outcome = "escaped" THEN "crashed" ELSE delivery
    /\ UNCHANGED <<config_vars, clock, writer, raw_readings, mqtt_log, agg_vars, env_vars, jobs>>

\* Time passes between two deliveries.
Tick(d) ==
    /\ delivery = "running"
    /\ Len(handled) < MaxMsgs
    /\ clock + d <= MaxClock
    /\ clock' = clock + d
    /\ UNCHANGED <<config_vars, last_stored, handled, delivery, tasks, writer,
                   raw_readings, mqtt_log, agg_vars, env_vars, jobs>>


\* ------------------------------------------------------------------ db.py
\* The rowid SQLite gives a row inserted into a table without AUTOINCREMENT.
NextId(table) ==
    IF table = {} THEN 1
    ELSE (CHOOSE m \in {r.id : r \in table} : \A r \in table : r.id <= m) + 1

\* The row _INSERT_READING_SQL inserts; msg is history (0: no message).
ReadingRow(id, c, msg) ==
    [id |-> id, device_id |-> c.device_id, timestamp |-> Val(c.timestamp),
     total_in |-> c.total_in, total_out |-> c.total_out, power_w |-> c.power_w,
     voltage |-> c.voltage, msg |-> msg]

\* The lengths of the months of 2024.
MonthLengths == <<31, 29, 31, 30, 31, 30, 31, 31, 30, 31, 30, 31>>

\* Month and day of the d-th day of 2024 (d = 0 is January 1), from month m on.
RECURSIVE MonthDay(_, _)
MonthDay(d, m) ==
    IF d < MonthLengths[m] THEN <<m, d + 1>> ELSE MonthDay(d - MonthLengths[m], m + 1)

\* SQLite's datetime() of the instant h hours after 2024-01-01 00:00:
\* YYYY-MM-DD HH:MM:SS, with a space between date and time.
DatetimeText(h) ==
    LET md == MonthDay(h \div 24, 1)
    IN  <<"2", "0", "2", "4", "-">> \o Pad2(md[1]) \o <<"-">> \o Pad2(md[2])
        \o <<" ">> \o Pad2(h % 24) \o <<":", "0", "0", ":", "0", "0">>

\* datetime('now', 'localtime'), the default of mqtt_log.timestamp.
DatetimeNowLocal == DatetimeText(wall + tz_offset)

\* datetime('now', '-N days'): UTC.
DatetimeNowMinusDays(n) == DatetimeText(wall - 24 * n)

\* The row _INSERT_LOG_SQL inserts, its timestamp being the column's
\* default; msg is history.
LogRow(id, c, msg) ==
    [id |-> id, timestamp |-> DatetimeNowLocal, device_id |-> c.device_id,
     status |-> c.log_status, summary |-> c.log_summary, topic |-> c.log_topic,
     msg |-> msg]

\* The rows a task's connection has inserted and not yet committed.
PendingReadings(t) == IF t.rid # 0 THEN {ReadingRow(t.rid, t.coro, t.msg)} ELSE {}
PendingLogs(t) == IF t.lid # 0 THEN {LogRow(t.lid, t.coro, t.msg)} ELSE {}

\* A task between its first step and its end.
InProgress == {"connect", "pragma", "insert_reading", "insert_log", "commit"}

SetTask(i, t) == [tasks EXCEPT ![i] = t]

\* The event loop runs the first step of the oldest queued coroutine; it
\* runs to the first await, the connection being opened on its own thread.
TaskStart(i) ==
    /\ tasks[i].pc = "queued"
    /\ \A j \in 1..(i - 1) : tasks[j].pc # "queued"
    /\ tasks' = SetTask(i, [tasks[i] EXCEPT !.pc = "connect"])
    /\ UNCHANGED <<config_vars, delivery_vars, writer, raw_readings, mqtt_log, agg_vars, env_vars, jobs>>

\* async with _connect(db_path) as db: the connection is open.
Connected(i) ==
    /\ tasks[i].pc = "connect"
    /\ tasks' = SetTask(i, [tasks[i] EXCEPT !.pc =
            IF tasks[i].coro.op = "insert_reading_and_log" THEN "pragma" ELSE "insert_log"])
    /\ UNCHANGED <<config_vars, delivery_vars, writer, raw_readings, mqtt_log, agg_vars, env_vars, jobs>>

\* await db.execute("PRAGMA busy_timeout=5000")
PragmaDone(i) ==
    /\ tasks[i].pc = "pragma"
    /\ tasks' = SetTask(i, [tasks[i] EXCEPT !.pc = "insert_reading"])
    /\ UNCHANGED <<config_vars, delivery_vars, writer, raw_readings, mqtt_log, agg_vars, env_vars, jobs>>

\* await db.execute(_INSERT_READING_SQL, ...): opens the transaction and takes
\* the write lock, waiting (busy_timeout) while another connection holds it.
ReadingInserted(i) ==
    /\ tasks[i].pc = "insert_reading"
    /\ writer = 0
    /\ writer' = i
    /\ tasks' = SetTask(i, [tasks[i] EXCEPT !.pc = "insert_log",
                                            !.rid = NextId(raw_readings)])
    /\ UNCHANGED <<config_vars, delivery_vars, raw_readings, mqtt_log, agg_vars, env_vars, jobs>>

\* await db.execute(_INSERT_LOG_SQL, ...), the first write of insert_mqtt_log
\* and the second of insert_reading_and_log.
LogInserted(i) ==
    /\ tasks[i].pc = "insert_log"
    /\ writer \in {0, i}
    /\ writer' = i
    /\ tasks' = SetTask(i, [tasks[i] EXCEPT !.pc = "commit", !.lid = NextId(mqtt_log)])
    /\ UNCHANGED <<config_vars, delivery_vars, raw_readings, mqtt_log, agg_vars, env_vars, jobs>>

\* A commit whose reading replaces the device's earlier readings.
ReadingsAfterCommit_Replace(table, t) ==
    {r \in table : \A n \in PendingReadings(t) : r.device_id # n.device_id}
        \cup PendingReadings(t)

\* await db.commit(): the connection's pending rows become the tables' rows.
ReadingsAfterCommit(table, t) == table \cup PendingReadings(t)
LogsAfterCommit(table, t) == table \cup PendingLogs(t)

Committed(i) ==
    /\ tasks[i].pc = "commit"
    /\ raw_readings' = ReadingsAfterCommit(raw_readings, tasks[i])
    /\ mqtt_log' = LogsAfterCommit(mqtt_log, tasks[i])
    /\ writer' = 0
    /\ tasks' = SetTask(i, [tasks[i] EXCEPT !.pc = "done"])
    /\ UNCHANGED <<config_vars, delivery_vars, agg_vars, env_vars, jobs>>

\* A close that keeps the reading the connection had inserted.
ReadingsAfterRollback_Kept(table, t) == table \cup PendingReadings(t)

\* An awaited step raises (connection error, database locked past the busy
\* timeout, I/O error): the async with closes the connection without a
\* commit, which rolls its transaction back.
ReadingsAfterRollback(table, t) == table
LogsAfterRollback(table, t) == table

\* A write failure that is raised in the delivery thread.
DeliveryAfterWriteFailure_Crash(d) == "crashed"

\* The exception ends in the future run_coroutine_threadsafe returned, which
\* _async_execute drops: nothing reaches the delivery thread.
DeliveryAfterWriteFailure(d) == d

\* A failing write that takes the device's entry out of the downsample
\* gate again.
TaskFails_RollsBackGate(i) ==
    /\ tasks[i].pc \in InProgress
    /\ raw_readings' = ReadingsAfterRollback(raw_readings, tasks[i])
    /\ mqtt_log' = LogsAfterRollback(mqtt_log, tasks[i])
    /\ writer' = IF writer = i THEN 0 ELSE writer
    /\ tasks' = SetTask(i, [tasks[i] EXCEPT !.pc = "failed"])
    /\ delivery' = DeliveryAfterWriteFailure(delivery)
    /\ last_stored' =
            IF tasks[i].coro.op = "insert_reading_and_log"
            THEN [last_stored EXCEPT
                    ![ExtractDeviceId(handled[tasks[i].msg].msg.topic)] = None]
            ELSE last_stored
    /\ UNCHANGED <<config_vars, clock, handled, agg_vars, env_vars, jobs>>

TaskFails(i) ==
    /\ tasks[i].pc \in InProgress
    /\ raw_readings' = ReadingsAfterRollback(raw_readings, tasks[i])
    /\ mqtt_log' = LogsAfterRollback(mqtt_log, tasks[i])
    /\ writer' = IF writer = i THEN 0 ELSE writer
    /\ tasks' = SetTask(i, [tasks[i] EXCEPT !.pc = "failed"])
    /\ delivery' = DeliveryAfterWriteFailure(delivery)
    /\ UNCHANGED <<config_vars, clock, last_stored, handled, agg_vars, env_vars, jobs>>

\* insert_reading: one connection, one insert, one commit.
InsertReading(device_id, timestamp, total_in) ==
    /\ raw_readings' = raw_readings \cup
            {ReadingRow(NextId(raw_readings),
                        [device_id |-> device_id, timestamp |-> Some(timestamp),
                         total_in |-> total_in, total_out |-> None,
                         power_w |-> None, voltage |-> None], 0)}
    /\ last_op' = "insert_reading"
    /\ hourly_runs' = 0
    /\ UNCHANGED <<config_vars, delivery_vars, tasks, writer, mqtt_log,
                   hourly_agg, hourly_columns, daily_agg, daily_columns,
                   daily_runs, returned, env_vars, jobs>>

\* insert_mqtt_log: one connection, one insert, one commit.
InsertMqttLog(device_id, status, summary, topic) ==
    /\ mqtt_log' = mqtt_log \cup
            {LogRow(NextId(mqtt_log), LogCoro(device_id, status, summary, topic), 0)}
    /\ last_op' = "insert_mqtt_log"
    /\ UNCHANGED <<config_vars, delivery_vars, tasks, writer, raw_readings,
                   hourly_agg, hourly_columns, hourly_runs, daily_agg,
                   daily_columns, daily_runs, returned, env_vars, jobs>>

\* The system clock advances by d hours.
AdvanceWall(d) ==
    /\ wall + d <= MaxWall
    /\ wall' = wall + d
    /\ UNCHANGED <<config_vars, delivery_vars, tasks, writer, raw_readings,
                   mqtt_log, agg_vars, tz_offset, retention_days, jobs>>

\* The columns of hourly_agg in _SCHEMA_SQL.
HOURLY_SCHEMA_COLUMNS ==
    {"id", "device_id", "hour", "avg_power_w", "kwh_consumed", "reading_count",
     "coverage_seconds"}

\* The columns of an hourly_agg table created before the schema lost
\* max_power_w and min_power_w and migrated by init_db (CREATE TABLE IF NOT
\* EXISTS keeps the table, the migration adds coverage_seconds).
HOURLY_LEGACY_COLUMNS == HOURLY_SCHEMA_COLUMNS \cup {"max_power_w", "min_power_w"}

\* --------------------------------------------------------- aggregation.py
\* The characters of device ids and hours, in the order of their bytes:
\* SQLite compares TEXT with memcmp.
Alphabet == <<" ", "-", "0", "1", "2", "3", "4", "5", "6", "7", "8", "9", ":", "T", "m">>

CharRank(c) == CHOOSE i \in 1..Len(Alphabet) : Alphabet[i] = c

RECURSIVE TextLess(_, _)
TextLess(a, b) ==
    IF a = <<>> THEN b # <<>>
    ELSE IF b = <<>> THEN FALSE
    ELSE IF Head(a) = Head(b) THEN TextLess(Tail(a), Tail(b))
    ELSE CharRank(Head(a)) < CharRank(Head(b))

DigitVal(c) == CHOOSE d \in 0..9 : DigitChar(d) = c

\* The two-digit number at positions i, i+1 of s.
Num2(s, i) == 10 * DigitVal(s[i]) + DigitVal(s[i + 1])

(* strftime('%Y-%m-%dT%H', timestamp) on a 19-character timestamp: NULL when
   SQLite cannot read it as YYYY-MM-DDTHH:MM:SS (month 1..12, day 1..31, hour
   0..24, minute and second 0..59), else the date and hour it holds.  SQLite
   normalises a day past the month's end and hour 24 into the next day or
   month; such timestamps are outside the inputs.                           *)
StrftimeHour(timestamp) ==
    IF /\ Len(timestamp) = 19
       /\ TimestampMatches(timestamp)
       /\ Num2(timestamp, 6) \in 1..12
       /\ Num2(timestamp, 9) \in 1..31
       /\ Num2(timestamp, 12) \in 0..24
       /\ Num2(timestamp, 15) \in 0..59
       /\ Num2(timestamp, 18) \in 0..59
    THEN Some(SubSeq(timestamp, 1, 13))
    ELSE None

SetMax(S) == CHOOSE m \in S : \A x \in S : x <= m
SetMin(S) == CHOOSE m \in S : \A x \in S : m <= x

\* WHERE total_in IS NOT NULL
HourlySource(raw) == {r \in raw : ~IsNone(r.total_in)}

\* GROUP BY device_id, strftime(...): the group keys and the rows of a key.
HourlyKeys(src) == {<<r.device_id, StrftimeHour(r.timestamp)>> : r \in src}
HourlyGroup(src, key) ==
    {r \in src : r.device_id = key[1] /\ StrftimeHour(r.timestamp) = key[2]}

\* The groups come out of the sorter in the order of their keys.
KeyLess(k1, k2) ==
    \/ TextLess(k1[1], k2[1])
    \/ k1[1] = k2[1] /\ TextLess(Val(k1[2]), Val(k2[2]))

\* A row whose kwh_consumed is the register's last value, not the delta.
HourlyRow_KwhRegister(key, group) ==
    LET totals == {Val(r.total_in) : r \in group}
    IN  [id               |-> 0,
         device_id        |-> key[1],
         hour             |-> Val(key[2]),
         avg_power_w      |-> Some((SetMax(totals) - SetMin(totals)) * 1000),
         kwh_consumed     |-> Some(SetMax(totals)),
         reading_count    |-> Cardinality(group),
         coverage_seconds |-> None]

\* The row the SELECT of compute_hourly_agg yields for one group (max_power_w
\* and min_power_w are NULL and not kept; coverage_seconds is not in the
\* column list and stays NULL).
HourlyRow(key, group) ==
    LET totals == {Val(r.total_in) : r \in group}
    IN  [id               |-> 0,
         device_id        |-> key[1],
         hour             |-> Val(key[2]),
         avg_power_w      |-> Some((SetMax(totals) - SetMin(totals)) * 1000),
         kwh_consumed     |-> Some(SetMax(totals) - SetMin(totals)),
         reading_count    |-> Cardinality(group),
         coverage_seconds |-> None]

\* A plain INSERT that ignores UNIQUE(device_id, hour).
InsertOrReplace_NoConflict(table, row) ==
    table \cup {[row EXCEPT !.id = NextId(table)]}

\* INSERT OR REPLACE of one row: the new rowid is taken, the row that
\* conflicts on UNIQUE(device_id, hour) is deleted, the new row inserted.
InsertOrReplace(table, row) ==
    LET conflicts == {r \in table : r.device_id = row.device_id /\ r.hour = row.hour}
    IN  (table \ conflicts) \cup {[row EXCEPT !.id = NextId(table)]}

RECURSIVE InsertSelected(_, _, _)
InsertSelected(table, keys, src) ==
    IF keys = {} THEN table
    ELSE LET k == CHOOSE x \in keys : \A y \in keys \ {x} : KeyLess(x, y)
         IN  InsertSelected(InsertOrReplace(table, HourlyRow(k, HourlyGroup(src, k))),
                            keys \ {k}, src)

(* The statement of compute_hourly_agg on a database: it cannot be prepared
   when the table lacks a column it names (OperationalError), and it aborts
   with nothing changed when a group's hour is NULL (hour is NOT NULL and has
   no default).                                                             *)
HourlyResult(raw, table, columns) ==
    LET src  == HourlySource(raw)
        keys == HourlyKeys(src)
    IN  IF ~({"max_power_w", "min_power_w"} \subseteq columns)
        THEN [ok |-> FALSE, table |-> table]
        ELSE IF \E k \in keys : IsNone(k[2])
        THEN [ok |-> FALSE, table |-> table]
        ELSE [ok |-> TRUE, table |-> InsertSelected(table, keys, src)]

\* compute_hourly_agg: the statement and its commit, or the exception.
ComputeHourlyAgg ==
    LET r == HourlyResult(raw_readings, hourly_agg, hourly_columns)
    IN  /\ hourly_agg' = r.table
        /\ last_op' = IF r.ok THEN "compute_hourly_agg" ELSE "compute_hourly_agg raised"
        /\ hourly_runs' = IF r.ok THEN hourly_runs + 1 ELSE hourly_runs
        /\ daily_runs' = IF r.ok THEN 0 ELSE daily_runs
        \* cursor.rowcount: the rows the statement inserted
        /\ returned' = IF r.ok
                        THEN Some(Cardinality(HourlyKeys(HourlySource(raw_readings))))
                        ELSE None
        /\ UNCHANGED <<config_vars, delivery_vars, tasks, writer, raw_readings,
                       mqtt_log, hourly_columns, daily_agg, daily_columns,
                       env_vars, jobs>>

\* compute_hourly_agg when the connection or the commit fails: the
\* connection closes without a commit and the table is as it was.
ComputeHourlyAggFails ==
    /\ last_op' = "compute_hourly_agg failed"
    /\ returned' = None
    /\ UNCHANGED <<config_vars, delivery_vars, tasks, writer, raw_readings,
                   mqtt_log, hourly_agg, hourly_columns, hourly_runs, daily_agg,
                   daily_columns, daily_runs, env_vars, jobs>>

\* The columns of daily_agg in _SCHEMA_SQL, and those of a daily_agg table
\* created before the schema lost max_power_w and min_power_w.
DAILY_SCHEMA_COLUMNS ==
    {"id", "device_id", "date", "avg_power_w", "kwh_consumed", "reading_count"}
DAILY_LEGACY_COLUMNS == DAILY_SCHEMA_COLUMNS \cup {"max_power_w", "min_power_w"}

RECURSIVE GCD(_, _)
GCD(a, b) == IF b = 0 THEN a ELSE GCD(b, a % b)

\* A REAL that need not be whole, as numerator and denominator in lowest
\* terms (a >= 0, b > 0).
Ratio(a, b) == <<a \div GCD(a, b), b \div GCD(a, b)>>

\* The non-NULL values of a nullable column in a set of rows, summed.
RECURSIVE SumField(_, _)
SumField(rows, field) ==
    IF rows = {} THEN 0
    ELSE LET r == CHOOSE x \in rows : TRUE
         IN  (IF IsNone(r[field]) THEN 0 ELSE Val(r[field]))
             + SumField(rows \ {r}, field)

RECURSIVE SumCount(_)
SumCount(rows) ==
    IF rows = {} THEN 0
    ELSE LET r == CHOOSE x \in rows : TRUE
         IN  r.reading_count + SumCount(rows \ {r})

\* SUM(column) and AVG(column): NULL when every value is NULL.
SqlSum(rows, field) ==
    IF \A r \in rows : IsNone(r[field]) THEN None ELSE Some(SumField(rows, field))
SqlAvg(rows, field) ==
    LET vals == {r \in rows : ~IsNone(r[field])}
    IN  IF vals = {} THEN None
        ELSE Some(Ratio(SumField(vals, field), Cardinality(vals)))

\* GROUP BY device_id, substr(hour, 1, 10)
DailyKeys(hourly) == {<<r.device_id, Truncate(r.hour, 10)>> : r \in hourly}
DailyGroup(hourly, key) ==
    {r \in hourly : r.device_id = key[1] /\ Truncate(r.hour, 10) = key[2]}

DailyKeyLess(k1, k2) ==
    \/ TextLess(k1[1], k2[1])
    \/ k1[1] = k2[1] /\ TextLess(k1[2], k2[2])

\* The row the SELECT of compute_daily_agg yields for one group (MAX and MIN
\* of max_power_w and min_power_w are NULL and not kept).
DailyRow(key, group) ==
    [id            |-> 0,
     device_id     |-> key[1],
     date          |-> key[2],
     avg_power_w   |-> SqlAvg(group, "avg_power_w"),
     kwh_consumed  |-> SqlSum(group, "kwh_consumed"),
     reading_count |-> SumCount(group)]

\* A plain INSERT that ignores UNIQUE(device_id, date).
DailyInsertOrReplace_NoConflict(table, row) ==
    table \cup {[row EXCEPT !.id = NextId(table)]}

\* INSERT OR REPLACE of one row into daily_agg.
DailyInsertOrReplace(table, row) ==
    LET conflicts == {r \in table : r.device_id = row.device_id /\ r.date = row.date}
    IN  (table \ conflicts) \cup {[row EXCEPT !.id = NextId(table)]}

RECURSIVE DailyInsertSelected(_, _, _)
DailyInsertSelected(table, keys, hourly) ==
    IF keys = {} THEN table
    ELSE LET k == CHOOSE x \in keys : \A y \in keys \ {x} : DailyKeyLess(x, y)
         IN  DailyInsertSelected(
                 DailyInsertOrReplace(table, DailyRow(k, DailyGroup(hourly, k))),
                 keys \ {k}, hourly)

\* A compute_daily_agg that rolls up the raw readings as they are now
\* instead of the stored hourly rows.
DailyResult_FromRaw(hourly, table, hourly_cols, daily_cols) ==
    LET fresh == HourlyResult(raw_readings, hourly, hourly_cols).table
    IN  IF ~({"max_power_w", "min_power_w"} \subseteq (hourly_cols \cap daily_cols))
        THEN [ok |-> FALSE, table |-> table]
        ELSE [ok |-> TRUE, table |-> DailyInsertSelected(table, DailyKeys(fresh), fresh)]

(* The statement of compute_daily_agg on a database: it cannot be prepared
   when daily_agg or hourly_agg lacks a column it names (OperationalError). *)
DailyResult(hourly, table, hourly_cols, daily_cols) ==
    IF ~({"max_power_w", "min_power_w"} \subseteq (hourly_cols \cap daily_cols))
    THEN [ok |-> FALSE, table |-> table]
    ELSE [ok |-> TRUE, table |-> DailyInsertSelected(table, DailyKeys(hourly), hourly)]

\* compute_daily_agg: the statement and its commit, or the exception.
ComputeDailyAgg ==
    LET r == DailyResult(hourly_agg, daily_agg, hourly_columns, daily_columns)
    IN  /\ daily_agg' = r.table
        /\ last_op' = IF r.ok THEN "compute_daily_agg" ELSE "compute_daily_agg raised"
        /\ daily_runs' = IF r.ok THEN daily_runs + 1 ELSE daily_runs
        /\ returned' = IF r.ok THEN Some(Cardinality(DailyKeys(hourly_agg))) ELSE None
        /\ UNCHANGED <<config_vars, delivery_vars, tasks, writer, raw_readings,
                       mqtt_log, hourly_agg, hourly_columns, hourly_runs,
                       daily_columns, env_vars, jobs>>

\* compute_daily_agg when the connection or the commit fails.
ComputeDailyAggFails ==
    /\ last_op' = "compute_daily_agg failed"
    /\ returned' = None
    /\ UNCHANGED <<config_vars, delivery_vars, tasks, writer, raw_readings,
                   mqtt_log, hourly_agg, hourly_columns, hourly_runs, daily_agg,
                   daily_columns, daily_runs, env_vars, jobs>>

\* A DELETE that takes only the oldest of the rows before the cutoff.
PruneSelect_Oldest(table, cutoff) ==
    {r \in table :
        /\ TextLess(r.timestamp, cutoff)
        /\ \A q \in table : TextLess(q.timestamp, cutoff) => r.id <= q.id}

\* WHERE timestamp < datetime('now', ?): a comparison of two TEXT values.
PruneSelect(table, cutoff) == {r \in table : TextLess(r.timestamp, cutoff)}

\* prune_raw_readings: the DELETE and its commit; returns cursor.rowcount.
PruneRawReadings ==
    LET deleted == PruneSelect(raw_readings, DatetimeNowMinusDays(retention_days))
    IN  /\ raw_readings' = raw_readings \ deleted
        /\ returned' = Some(Cardinality(deleted))
        /\ last_op' = "prune_raw_readings"
        /\ hourly_runs' = IF deleted = {} THEN hourly_runs ELSE 0
        /\ UNCHANGED <<config_vars, delivery_vars, tasks, writer, mqtt_log,
                       hourly_agg, hourly_columns, daily_agg, daily_columns,
                       daily_runs, env_vars, jobs>>

\* prune_mqtt_log: the DELETE and its commit; returns cursor.rowcount.
PruneMqttLog ==
    LET deleted == PruneSelect(mqtt_log, DatetimeNowMinusDays(retention_days))
    IN  /\ mqtt_log' = mqtt_log \ deleted
        /\ returned' = Some(Cardinality(deleted))
        /\ last_op' = "prune_mqtt_log"
        /\ UNCHANGED <<config_vars, delivery_vars, tasks, writer, raw_readings,
                       hourly_agg, hourly_columns, hourly_runs, daily_agg,
                       daily_columns, daily_runs, env_vars, jobs>>

(* setup_scheduler: four interval jobs on an AsyncIOScheduler built with its
   defaults.  jobs[j].instances is the number of runs of job j in progress
   (submitted to the event loop and not yet finished); started, skipped,
   done and failed count what happened to its ticks. *)

\* A scheduler that submits every tick.
CanStart_Always(job) == TRUE

\* add_job without max_instances: a tick is submitted only while fewer than
\* MAX_INSTANCES runs of the job are in progress.
CanStart(job) == job.instances < MAX_INSTANCES

\* The ticks of all jobs so far.
RECURSIVE TickCount(_, _)
TickCount(js, ids) ==
    IF ids = {} THEN 0
    ELSE LET j == CHOOSE x \in ids : TRUE
         IN  js[j].started + js[j].skipped + TickCount(js, ids \ {j})

\* The interval trigger of job j fires: the run is submitted, or the tick
\* is skipped because the job's previous run is still in progress.
JobTick(j) ==
    /\ jobs[j].scheduled
    /\ TickCount(jobs, JobIds) < MaxTicks
    /\ jobs' = IF CanStart(jobs[j])
                THEN [jobs EXCEPT ![j].instances = @ + 1, ![j].started = @ + 1]
                ELSE [jobs EXCEPT ![j].skipped = @ + 1]
    /\ UNCHANGED <<config_vars, delivery_vars, tasks, writer, raw_readings,
                   mqtt_log, agg_vars, env_vars>>

\* What the function of job j does to the store when run now.
JobResult(j) ==
    LET cutoff == DatetimeNowMinusDays(retention_days)
        h == HourlyResult(raw_readings, hourly_agg, hourly_columns)
        d == DailyResult(hourly_agg, daily_agg, hourly_columns, daily_columns)
        same == [ok |-> TRUE, raw |-> raw_readings, log |-> mqtt_log,
                 hourly |-> hourly_agg, daily |-> daily_agg]
    IN  CASE j = "hourly_agg" -> [same EXCEPT !.ok = h.ok, !.hourly = h.table]
          [] j = "daily_agg" -> [same EXCEPT !.ok = d.ok, !.daily = d.table]
          [] j = "prune_raw" ->
                [same EXCEPT !.raw = raw_readings \ PruneSelect(raw_readings, cutoff)]
          [] j = "prune_mqtt_log" ->
                [same EXCEPT !.log = mqtt_log \ PruneSelect(mqtt_log, cutoff)]

\* The function of each job.
JobFunction ==
    [hourly_agg |-> "compute_hourly_agg", daily_agg |-> "compute_daily_agg",
     prune_raw |-> "prune_raw_readings", prune_mqtt_log |-> "prune_mqtt_log"]

\* A job whose failed run was the end of it.
JobAfterError_Removed(job) ==
    [job EXCEPT !.scheduled = FALSE, !.instances = @ - 1, !.failed = @ + 1]

\* A run that returned: the scheduler releases the instance.
JobAfterSuccess(job) == [job EXCEPT !.instances = @ - 1, !.done = @ + 1]

\* A run that raised: the scheduler logs the exception and releases the
\* instance; the job stays scheduled.
JobAfterError(job) == [job EXCEPT !.instances = @ - 1, !.failed = @ + 1]

\* What the end of a run of job j with result r does to the tables and to
\* the job.
JobApply(j, r) ==
    /\ raw_readings' = r.raw
    /\ mqtt_log' = r.log
    /\ hourly_agg' = r.hourly
    /\ daily_agg' = r.daily
    /\ last_op' = IF r.ok THEN JobFunction[j] ELSE JobFunction[j] \o " raised"
    /\ jobs' = [jobs EXCEPT ![j] = IF r.ok THEN JobAfterSuccess(@)
                                            ELSE JobAfterError(@)]
    /\ UNCHANGED <<config_vars, delivery_vars, tasks, hourly_columns,
                   hourly_runs, daily_columns, daily_runs, returned, env_vars>>

\* The run of job j in progress finishes: its function returns or raises.
JobEnd(j) ==
    /\ jobs[j].instances > 0
    /\ JobApply(j, JobResult(j))
    /\ UNCHANGED writer

\* The run of job j in progress fails on its connection or its commit.
JobEndFails(j) ==
    /\ jobs[j].instances > 0
    /\ last_op' = JobFunction[j] \o " failed"
    /\ jobs' = [jobs EXCEPT ![j] = JobAfterError(@)]
    /\ UNCHANGED <<config_vars, delivery_vars, tasks, writer, raw_readings,
                   mqtt_log, hourly_agg, hourly_columns, hourly_runs, daily_agg,
                   daily_columns, daily_runs, returned, env_vars>>

(* The jobs and the ingestion writes contending for SQLite's write lock.
   Every connection waits for the lock at most its busy timeout: 5000 ms
   set by insert_reading_and_log, and the 5 seconds aiosqlite.connect gives
   a connection by default for all other functions. *)

\* The value of writer while a run of job j holds the write lock.
JobWriter == [hourly_agg |-> -1, daily_agg |-> -2, prune_raw |-> -3, prune_mqtt_log |-> -4]

\* The statement of the running job j is rejected when it is prepared (it
\* names a column the table lacks).
JobPrepareFails(j) == jobs[j].instances > 0 /\ ~JobResult(j).ok

\* The statement of the running job j can take the write lock.
JobLockFree(j) == jobs[j].instances > 0 /\ JobResult(j).ok /\ writer = 0

\* A commit whose connection never gets to it.
JobCommitReady_Never(j) == FALSE

\* The connection of job j holds the write lock: its commit is next.
JobCommitReady(j) == writer = JobWriter[j]

\* The running job j waits for the write lock another connection holds.
JobLockedOut(j) == jobs[j].instances > 0 /\ writer \notin {0, JobWriter[j]}

\* The function raises on its statement, without the lock.
JobRaises(j) ==
    /\ JobPrepareFails(j)
    /\ JobEnd(j)

\* await db.execute(...) of job j's function: the statement runs and its
\* connection holds the write lock until the commit.
JobLock(j) ==
    /\ JobLockFree(j)
    /\ writer' = JobWriter[j]
    /\ UNCHANGED <<config_vars, delivery_vars, tasks, raw_readings, mqtt_log,
                   agg_vars, env_vars, jobs>>

\* await db.commit() of job j's function: the tables change, the lock is
\* released and the function returns.
JobCommit(j) ==
    /\ JobCommitReady(j)
    /\ JobApply(j, JobResult(j))
    /\ writer' = 0

\* The statement of job j's function waited its busy timeout for the lock
\* another connection holds: it raises "database is locked".
JobTimeout(j) ==
    /\ JobLockedOut(j)
    /\ JobEndFails(j)

\* A step of the run of job j that is not an injected failure.
JobProgress(j) == JobRaises(j) \/ JobLock(j) \/ JobCommit(j) \/ JobTimeout(j)

\* JobProgress(j) can be taken: one of its four guards holds (what its
\* steps assign is always defined, and each changes jobs or writer).
JobCanProgress(j) ==
    JobPrepareFails(j) \/ JobLockFree(j) \/ JobCommitReady(j) \/ JobLockedOut(j)

\* An insert of task i waited its busy timeout for the lock another
\* connection holds: it raises "database is locked".
LockTimeout(i) ==
    /\ i \in 1..Len(tasks)
    /\ tasks[i].pc \in {"insert_reading", "insert_log"}
    /\ writer \notin {0, i}
    /\ TaskFails(i)

\* A step of task i that is not a failure.
TaskProgress(i) ==
    /\ i \in 1..Len(tasks)
    /\ \/ TaskStart(i)
       \/ Connected(i)
       \/ PragmaDone(i)
       \/ ReadingInserted(i)
       \/ LogInserted(i)
       \/ Committed(i)

\* ------------------------------------------------------ db.py: reporting
\* str(n) of a non-negative integer.
RECURSIVE IntText(_)
IntText(n) == IF n < 10 THEN <<DigitChar(n)>> ELSE IntText(n \div 10) \o <<DigitChar(n % 10)>>

\* year_start = f"{year}-01-01"
YearStart(year) == IntText(year) \o <<"-", "0", "1", "-", "0", "1">>

\* round(): the integers nearest to num / den (den > 0). There are two when
\* num / den lies halfway; which of them round() returns depends on the
\* binary value of the float.
Rounded(num, den) ==
    LET fl == num \div den
    IN  {q \in {fl, fl + 1} :
            2 * (IF num >= q * den THEN num - q * den ELSE q * den - num) <= den}

\* WHERE device_id = ? AND total_in IS NOT NULL
TotalInRows(raw, device_id) ==
    {r \in raw : r.device_id = device_id /\ ~IsNone(r.total_in)}

\* ORDER BY timestamp ASC LIMIT 1 and ORDER BY timestamp DESC LIMIT 1: a row
\* no other row precedes (follows); SQL leaves open which one of several.
FirstByTimestamp(rows) ==
    {r \in rows : \A x \in rows : ~TextLess(x.timestamp, r.timestamp)}
LastByTimestamp(rows) ==
    {r \in rows : \A x \in rows : ~TextLess(r.timestamp, x.timestamp)}

\* first_row of a get_consumption_stats that never looks at the year.
FirstRows_Earliest(raw, device_id, year) == FirstByTimestamp(TotalInRows(raw, device_id))

\* first_row: the first reading with timestamp >= year_start, and the very
\* first reading when there is none.
FirstRows(raw, device_id, year) ==
    LET all   == TotalInRows(raw, device_id)
        since == {r \in all : ~TextLess(r.timestamp, YearStart(year))}
    IN  IF since # {} THEN FirstByTimestamp(since) ELSE FirstByTimestamp(all)

\* kwh_year, in thousandths of a kWh: the values the two rows can give
\* (none when there is no row).
KwhYear(raw, device_id, year) ==
    {Val(l.total_in) - Val(f.total_in) :
        l \in LastByTimestamp(TotalInRows(raw, device_id)),
        f \in FirstRows(raw, device_id, year)}

\* round(kwh_year, 2), in hundredths of a kWh, or None.
KwhThisYear(raw, device_id, year) ==
    IF KwhYear(raw, device_id, year) = {} THEN {None}
    ELSE {Some(q) : q \in UNION {Rounded(k, 10) : k \in KwhYear(raw, device_id, year)}}

\* round(avg_day, 2) and round(avg_day * 30.44, 2), in hundredths of a kWh,
\* or None: avg_day is AVG(kwh_consumed) over the device's daily_agg rows.
AvgKwh(daily, device_id, per_mille) ==
    LET avg == SqlAvg({r \in daily : r.device_id = device_id}, "kwh_consumed")
    IN  IF IsNone(avg) THEN {None}
        ELSE {Some(q) : q \in Rounded(Val(avg)[1] * per_mille, Val(avg)[2] * 10 * 1000)}

\* get_consumption_stats: the three values it returns (device_id and year
\* are history: the arguments of the call).
GetConsumptionStats(device_id, year) ==
    /\ \E day \in AvgKwh(daily_agg, device_id, 1000),
          month \in AvgKwh(daily_agg, device_id, 30440),
          kwh \in KwhThisYear(raw_readings, device_id, year) :
            returned' = [device_id |-> device_id, year |-> year,
                         avg_kwh_per_day |-> day, avg_kwh_per_month |-> month,
                         kwh_this_year |-> kwh]
    /\ last_op' = "get_consumption_stats"
    /\ UNCHANGED <<config_vars, delivery_vars, tasks, writer, raw_readings,
                   mqtt_log, hourly_agg, hourly_columns, hourly_runs, daily_agg,
                   daily_columns, daily_runs, env_vars, jobs>>

\* The hourly_agg rows of a device.
DeviceHours(hourly, device_id) == {r \in hourly : r.device_id = device_id}

\* substr(MIN(hour), 1, 10), None for no row and for an empty text.
FirstReadingDate(hourly, device_id) ==
    LET rows == DeviceHours(hourly, device_id)
        least == CHOOSE r \in rows : \A x \in rows : ~TextLess(x.hour, r.hour)
    IN  IF rows = {} \/ Truncate(least.hour, 10) = <<>> THEN None
        ELSE Some(Truncate(least.hour, 10))

\* The inner SELECT of a statement without MIN(reading_count) >= 3.
FullCoverageDates_AnyCount(hourly, device_id) ==
    LET rows == DeviceHours(hourly, device_id)
    IN  {d \in {Truncate(r.hour, 10) : r \in rows} :
            Cardinality({r \in rows : Truncate(r.hour, 10) = d}) = 24}

\* The inner SELECT: GROUP BY substr(hour, 1, 10)
\* HAVING COUNT(*) = 24 AND MIN(reading_count) >= 3.
FullCoverageDates(hourly, device_id) ==
    LET rows == DeviceHours(hourly, device_id)
    IN  {d \in {Truncate(r.hour, 10) : r \in rows} :
            LET group == {r \in rows : Truncate(r.hour, 10) = d}
            IN  /\ Cardinality(group) = 24
                /\ SetMin({r.reading_count : r \in group}) >= 3}

\* get_coverage_stats (device_id is history: the argument of the call).
GetCoverageStats(device_id) ==
    /\ returned' = [device_id |-> device_id,
                    first_reading_date |-> FirstReadingDate(hourly_agg, device_id),
                    days_with_full_coverage |->
                        Cardinality(FullCoverageDates(hourly_agg, device_id))]
    /\ last_op' = "get_coverage_stats"
    /\ UNCHANGED <<config_vars, delivery_vars, tasks, writer, raw_readings,
                   mqtt_log, hourly_agg, hourly_columns, hourly_runs, daily_agg,
                   daily_columns, daily_runs, env_vars, jobs>>

\* ----------------------------------------------------------- specification

\* What every specification starts with: empty daily_agg, the clock at
\* WallStart in a process whose local time is UTC, nothing returned yet and
\* the four jobs of setup_scheduler, none running.
InitRest ==
    /\ daily_agg = {}
    /\ daily_runs = 0
    /\ wall = WallStart
    /\ tz_offset = 0
    /\ retention_days = 1
    /\ returned = None
    /\ jobs = [j \in JobIds |-> NewJob]

Init ==
    /\ poll_store_mode \in {"all", "downsample_60s"}
    /\ allowed_setting \in {<<>>, M1}
    /\ allowed_devices = ParseAllowedDevices(allowed_setting)
    /\ clock = 0
    /\ last_stored = [d \in Devices |-> None]
    /\ handled = <<>>
    /\ delivery = "running"
    /\ tasks = <<>>
    /\ writer = 0
    /\ raw_readings = {}
    /\ mqtt_log = {}
    /\ hourly_agg = {}
    /\ hourly_columns = HOURLY_SCHEMA_COLUMNS
    /\ last_op = "init_db"
    /\ hourly_runs = 0
    /\ daily_columns = DAILY_SCHEMA_COLUMNS
    /\ InitRest

\* The handler alone: deliveries and the passing of time; what it hands to
\* the event loop stays queued.
NextHandler ==
    \/ \E msg \in Messages : Len(handled) < MaxMsgs /\ OnMessage(msg)
    \/ \E d \in Advances : Tick(d)

SpecHandler == Init /\ [][NextHandler]_vars

\* Deliveries and the event loop running the writes they hand over.
Next ==
    \/ \E msg \in LoopMessages : Len(handled) < MaxLoopMsgs /\ OnMessage(msg)
    \/ \E i \in 1..Len(tasks) :
        \/ TaskStart(i)
        \/ Connected(i)
        \/ PragmaDone(i)
        \/ ReadingInserted(i)
        \/ LogInserted(i)
        \/ Committed(i)
        \/ TaskFails(i)

Spec == Init /\ [][Next]_vars

\* The downsample gate with the writes behind it: deliveries of readings of
\* two devices, time passing between them, and the event loop running (and
\* failing) the writes.
InitGate ==
    /\ Init
    /\ poll_store_mode = "downsample_60s"
    /\ allowed_setting = <<>>

NextGate ==
    \/ \E msg \in GateMessages : Len(handled) < MaxGateMsgs /\ OnMessage(msg)
    \/ \E d \in Advances : Len(handled) < MaxGateMsgs /\ Tick(d)
    \/ \E i \in 1..Len(tasks) :
        \/ TaskStart(i)
        \/ Connected(i)
        \/ PragmaDone(i)
        \/ ReadingInserted(i)
        \/ LogInserted(i)
        \/ Committed(i)
        \/ TaskFails(i)

SpecGate == InitGate /\ [][NextGate]_vars

\* The aggregation engine on a store that readings are inserted into: the
\* database file is a fresh one or one with the older hourly_agg table.
InitAgg ==
    /\ poll_store_mode = "all"
    /\ allowed_setting = <<>>
    /\ allowed_devices = {}
    /\ clock = 0
    /\ last_stored = [d \in Devices |-> None]
    /\ handled = <<>>
    /\ delivery = "running"
    /\ tasks = <<>>
    /\ writer = 0
    /\ raw_readings = {}
    /\ mqtt_log = {}
    /\ hourly_agg = {}
    /\ hourly_columns \in {HOURLY_SCHEMA_COLUMNS, HOURLY_LEGACY_COLUMNS}
    /\ last_op = "init_db"
    /\ hourly_runs = 0
    \* both tables are of the same age
    /\ daily_columns = IF hourly_columns = HOURLY_SCHEMA_COLUMNS
                       THEN DAILY_SCHEMA_COLUMNS ELSE DAILY_LEGACY_COLUMNS
    /\ InitRest

NextAgg ==
    \/ \E r \in Readings :
        Cardinality(raw_readings) < MaxReadings /\ InsertReading(r[1], r[2], r[3])
    \/ hourly_runs < MaxRuns /\ ComputeHourlyAgg
    \/ ComputeHourlyAggFails

SpecAgg == InitAgg /\ [][NextAgg]_vars

\* The two rollups, one after the other in any order, over readings of two
\* days and two devices.
NextDaily ==
    \/ \E i \in 1..Len(DailyReadings) :
        /\ Cardinality(raw_readings) < MaxReadings
        /\ \A r \in raw_readings : ReadingIndex(r) < i
        /\ InsertReading(DailyReadings[i][1], DailyReadings[i][2], DailyReadings[i][3])
    \/ hourly_runs < MaxHourlyRunsDaily /\ ComputeHourlyAgg
    \/ daily_runs < MaxDailyRuns /\ ComputeDailyAgg
    \/ ComputeDailyAggFails

SpecDaily == InitAgg /\ [][NextDaily]_vars

\* The retention pruner on a store that readings and log entries are
\* written to while the clock advances; the process's time zone is UTC or
\* one hour east of it.
InitPrune ==
    /\ poll_store_mode = "all"
    /\ allowed_setting = <<>>
    /\ allowed_devices = {}
    /\ clock = 0
    /\ last_stored = [d \in Devices |-> None]
    /\ handled = <<>>
    /\ delivery = "running"
    /\ tasks = <<>>
    /\ writer = 0
    /\ raw_readings = {}
    /\ mqtt_log = {}
    /\ hourly_agg = {}
    /\ hourly_columns = HOURLY_SCHEMA_COLUMNS
    /\ last_op = "init_db"
    /\ hourly_runs = 0
    /\ daily_agg = {}
    /\ daily_columns = DAILY_SCHEMA_COLUMNS
    /\ daily_runs = 0
    /\ wall = WallStart
    /\ tz_offset \in TzOffsets
    /\ retention_days \in RetentionDays
    /\ returned = None
    /\ jobs = [j \in JobIds |-> NewJob]

NextPrune ==
    \/ \E r \in PruneReadings :
        Cardinality(raw_readings) < MaxPruneRows /\ InsertReading(r[1], r[2], r[3])
    \/ Cardinality(mqtt_log) < MaxPruneLogs /\ InsertMqttLog(Some(M1), "ok", None, Some(TOPIC_M1))
    \/ \E d \in WallAdvances : AdvanceWall(d)
    \/ PruneRawReadings
    \/ PruneMqttLog

\* The pruner between runs of the hourly rollup, at noon of 2024-01-15 with
\* one day of retention, on a database whose hourly_agg table has the
\* columns the rollup names.
InitErode ==
    /\ InitAgg
    /\ hourly_columns = HOURLY_LEGACY_COLUMNS
    /\ tz_offset = 0
    /\ retention_days = 1

\* A tick of the hourly job while the model's counters leave room.
HourlyTickAllowed ==
    /\ hourly_runs < MaxErodeRuns
    /\ \A a \in hourly_agg : a.id < MaxErodeIds
HourlyTick == HourlyTickAllowed /\ ComputeHourlyAgg

NextErode ==
    \/ \E i \in 1..Len(ErodeReadings) :
        /\ Cardinality(raw_readings) < MaxErodeRows
        /\ \A r \in raw_readings : ErodeIndex(r) < i
        /\ InsertReading(ErodeReadings[i][1], ErodeReadings[i][2], ErodeReadings[i][3])
    \/ PruneRawReadings
    \/ HourlyTick
    \/ ComputeHourlyAggFails

SpecErode == InitErode /\ [][NextErode]_vars

\* The same steps on a database of either schema, the hourly job's ticks
\* coming again and again.
InitErodeFair ==
    /\ InitAgg
    /\ tz_offset = 0
    /\ retention_days = 1

\* A tick of the hourly job would change the state: the run returns, or it
\* raises and the last call was no raising run of it.
HourlyTickChanges ==
    /\ HourlyTickAllowed
    /\ \/ HourlyResult(raw_readings, hourly_agg, hourly_columns).ok
       \/ last_op # "compute_hourly_agg raised"
       \/ returned # None
HourlyTickEnabled == (ENABLED <<HourlyTick>>_vars) <=> HourlyTickChanges

\* Weak fairness of the two interval jobs; that of the hourly job is
\* written out with HourlyTickChanges for ENABLED <<HourlyTick>>_vars.
SpecErodeFair ==
    /\ InitErodeFair
    /\ [][NextErode]_vars
    /\ WF_vars(PruneRawReadings)
    /\ \/ []<>(~HourlyTickChanges)
       \/ []<><<HourlyTick>>_vars

\* Deliveries of every kind of payload and the event loop running the
\* writes they hand over.
NextParse ==
    \/ \E msg \in ParseMessages : Len(handled) < MaxParseMsgs /\ OnMessage(msg)
    \/ \E i \in 1..Len(tasks) :
        \/ TaskStart(i)
        \/ Connected(i)
        \/ PragmaDone(i)
        \/ ReadingInserted(i)
        \/ LogInserted(i)
        \/ Committed(i)
        \/ TaskFails(i)

SpecParse == Init /\ [][NextParse]_vars

\* The handler on every kind of topic, with every kind of allowed_devices
\* setting, and the event loop running the writes it hands over.
InitTopic ==
    /\ poll_store_mode = "all"
    /\ allowed_setting \in AllowedSettings
    /\ allowed_devices = ParseAllowedDevices(allowed_setting)
    /\ clock = 0
    /\ last_stored = [d \in Devices |-> None]
    /\ handled = <<>>
    /\ delivery = "running"
    /\ tasks = <<>>
    /\ writer = 0
    /\ raw_readings = {}
    /\ mqtt_log = {}
    /\ hourly_agg = {}
    /\ hourly_columns = HOURLY_SCHEMA_COLUMNS
    /\ last_op = "init_db"
    /\ hourly_runs = 0
    /\ daily_columns = DAILY_SCHEMA_COLUMNS
    /\ InitRest

NextTopic ==
    \/ \E msg \in TopicMessages : Len(handled) < MaxTopicMsgs /\ OnMessage(msg)
    \/ \E i \in 1..Len(tasks) :
        \/ TaskStart(i)
        \/ Connected(i)
        \/ PragmaDone(i)
        \/ ReadingInserted(i)
        \/ LogInserted(i)
        \/ Committed(i)
        \/ TaskFails(i)

SpecTopic == InitTopic /\ [][NextTopic]_vars

\* A store that holds a reading of 2024-01-13 from an earlier run of the
\* program, old enough for prune_raw_readings at the model's clock.
\* get_consumption_stats on a store that readings are inserted into.
NextStats ==
    \/ \E r \in StatReadings :
        Cardinality(raw_readings) < MaxStatReadings /\ InsertReading(r[1], r[2], r[3])
    \/ \E d \in Devices, y \in StatYears : GetConsumptionStats(d, y)

SpecStats == InitAgg /\ [][NextStats]_vars

\* get_coverage_stats on a store that readings are inserted into and
\* compute_hourly_agg runs on; an hourly_agg table that holds rows is one
\* compute_hourly_agg could write to.
InitCoverage ==
    /\ poll_store_mode = "all"
    /\ allowed_setting = <<>>
    /\ allowed_devices = {}
    /\ clock = 0
    /\ last_stored = [d \in Devices |-> None]
    /\ handled = <<>>
    /\ delivery = "running"
    /\ tasks = <<>>
    /\ writer = 0
    /\ raw_readings = {}
    /\ mqtt_log = {}
    /\ hourly_agg \in CoverageTables
    /\ hourly_columns \in {HOURLY_SCHEMA_COLUMNS, HOURLY_LEGACY_COLUMNS}
    /\ hourly_agg # {} => hourly_columns = HOURLY_LEGACY_COLUMNS
    /\ last_op = "init_db"
    /\ hourly_runs = 0
    /\ daily_columns = IF hourly_columns = HOURLY_SCHEMA_COLUMNS
                       THEN DAILY_SCHEMA_COLUMNS ELSE DAILY_LEGACY_COLUMNS
    /\ InitRest

NextCoverage ==
    \/ \E r \in CoverageReadings :
        Cardinality(raw_readings) < MaxCoverageReadings
            /\ InsertReading(r[1], r[2], r[3])
    \/ hourly_runs < MaxRuns /\ ComputeHourlyAgg
    \/ \E d \in Devices : GetCoverageStats(d)

SpecCoverage == InitCoverage /\ [][NextCoverage]_vars

InitStore ==
    /\ poll_store_mode = "all"
    /\ allowed_setting = <<>>
    /\ allowed_devices = {}
    /\ clock = 0
    /\ last_stored = [d \in Devices |-> None]
    /\ handled = <<>>
    /\ delivery = "running"
    /\ tasks = <<>>
    /\ writer = 0
    /\ raw_readings =
            {ReadingRow(1, [device_id |-> M1, timestamp |-> Some(TS_OLD),
                            total_in |-> Some(3), total_out |-> None,
                            power_w |-> None, voltage |-> None], 0)}
    /\ mqtt_log = {}
    /\ hourly_columns \in {HOURLY_SCHEMA_COLUMNS, HOURLY_LEGACY_COLUMNS}
    /\ daily_columns = IF hourly_columns = HOURLY_SCHEMA_COLUMNS
                       THEN DAILY_SCHEMA_COLUMNS ELSE DAILY_LEGACY_COLUMNS
    \* the two rollups have run on that reading, where they can
    /\ hourly_agg = HourlyResult(raw_readings, {}, hourly_columns).table
    /\ daily_agg = DailyResult(hourly_agg, {}, hourly_columns, daily_columns).table
    /\ last_op = "init_db"
    /\ hourly_runs = 0
    /\ daily_runs = 0
    /\ wall = WallStart
    /\ tz_offset = 0
    /\ retention_days = 1
    /\ returned = None
    /\ jobs = [j \in JobIds |-> NewJob]

\* Ingestion writes, aggregation runs and pruning runs on one store.
NextStore ==
    \/ \E msg \in StoreMessages : Len(handled) < MaxStoreMsgs /\ OnMessage(msg)
    \/ \E i \in 1..Len(tasks) :
        \/ TaskStart(i)
        \/ Connected(i)
        \/ PragmaDone(i)
        \/ ReadingInserted(i)
        \/ LogInserted(i)
        \/ Committed(i)
        \/ TaskFails(i)
    \/ \E j \in JobIds : TickCount(jobs, JobIds) < MaxStoreTicks /\ JobTick(j)
    \/ \E j \in JobIds : JobRaises(j)
    \/ \E j \in JobIds : JobLock(j)
    \/ \E j \in JobIds : JobCommit(j)
    \/ \E j \in JobIds : JobTimeout(j)

SpecStore == InitStore /\ [][NextStore]_vars

\* A shutdown that cancels the runs in progress and leaves the jobs in the
\* job store with their triggers.
JobAfterShutdown_StillScheduled(job) == [job EXCEPT !.instances = 0]

\* scheduler.shutdown(): the scheduler stops firing triggers, and the
\* executor cancels the futures of the runs in progress.
JobAfterShutdown(job) == [job EXCEPT !.scheduled = FALSE, !.instances = 0]

\* _on_disconnect's summary.
SUMMARY_DISCONNECTED == <<"d", "i", "s", "c", "o", "n", "n", "e", "c", "t", "e", "d">>

(* The end of lifespan: scheduler.shutdown(), then subscriber.stop(), which
   joins paho's network thread (loop_stop) and disconnects.  The two calls
   are made by one coroutine with no await between them, so no step of the
   event loop comes between them; a cancelled run never reaches its commit,
   and its connection gives up the write lock when it closes.  When the
   client has a connection, disconnect() writes the DISCONNECT packet itself
   and calls _on_disconnect, which hands one more log entry to the loop.  *)
LifespanExit ==
    /\ delivery # "stopped"
    /\ jobs' = [j \in JobIds |-> JobAfterShutdown(jobs[j])]
    /\ writer' = IF writer < 0 THEN 0 ELSE writer
    /\ delivery' = "stopped"
    /\ \E connected \in BOOLEAN :
        tasks' = IF connected
                 THEN AsyncExecute(tasks, LogCoro(None, "error",
                                                  Some(SUMMARY_DISCONNECTED), None), 0)
                 ELSE tasks
    /\ UNCHANGED <<config_vars, clock, last_stored, handled, raw_readings,
                   mqtt_log, agg_vars, env_vars>>

\* The store with its writers until and after the application shuts down;
\* the event loop goes on running (or dropping) what was handed to it.
NextShutdown ==
    \/ NextStore
    \/ LifespanExit

SpecShutdown == InitStore /\ [][NextShutdown]_vars

\* The steps of the ingestion writes that are not injected failures: the
\* event loop runs a task, or an insert's wait for the lock ends at the
\* busy timeout.
WriteProgress == \E i \in 1..Len(tasks) : TaskProgress(i) \/ LockTimeout(i)

\* The steps of the scheduled runs that are not injected failures.
RunProgress == \E j \in JobIds : JobProgress(j)

\* RunProgress can be taken exactly when JobCanProgress says so.
RunProgressEnabled ==
    (ENABLED <<RunProgress>>_vars) <=> (\E j \in JobIds : JobCanProgress(j))

\* The store model in which the event loop and the threads of the
\* connections do not stop: weak fairness of WriteProgress and of
\* RunProgress, the latter written out with JobCanProgress for
\* ENABLED <<RunProgress>>_vars (RunProgressEnabled is an invariant).
SpecStoreFair ==
    /\ SpecStore
    /\ WF_vars(WriteProgress)
    /\ \/ []<>(~\E j \in JobIds : JobCanProgress(j))
       \/ []<><<RunProgress>>_vars

SpecPrune == InitPrune /\ [][NextPrune]_vars

\* The scheduler's jobs running on a store that readings arrive in.
InitSched ==
    /\ poll_store_mode = "all"
    /\ allowed_setting = <<>>
    /\ allowed_devices = {}
    /\ clock = 0
    /\ last_stored = [d \in Devices |-> None]
    /\ handled = <<>>
    /\ delivery = "running"
    /\ tasks = <<>>
    /\ writer = 0
    /\ raw_readings = {}
    /\ mqtt_log = {}
    /\ hourly_agg = {}
    /\ hourly_columns \in {HOURLY_SCHEMA_COLUMNS, HOURLY_LEGACY_COLUMNS}
    /\ last_op = "init_db"
    /\ hourly_runs = 0
    /\ daily_columns = IF hourly_columns = HOURLY_SCHEMA_COLUMNS
                       THEN DAILY_SCHEMA_COLUMNS ELSE DAILY_LEGACY_COLUMNS
    /\ InitRest

NextSched ==
    \/ /\ raw_readings = {}
       /\ InsertReading(M1, TS_OLD, Some(1))
    \/ \E j \in JobIds : JobTick(j)
    \/ \E j \in JobIds : JobEnd(j)
    \/ \E j \in JobIds : JobEndFails(j)

SpecSched == InitSched /\ [][NextSched]_vars


\* ------------------------------------------------------------ vocabulary
\* h is an entry of handled, k its index; ts, rs, ls are values of tasks,
\* raw_readings and mqtt_log.
MsgIds == 1..Len(handled)
TaskIds == 1..Len(tasks)
TasksOf(ts, k) == {i \in 1..Len(ts) : ts[i].msg = k}
RowsOf(table, k) == {r \in table : r.msg = k}
DeviceOf(h) == ExtractDeviceId(h.msg.topic)

\* The message's topic is readable and its device passes the allowlist.
Admitted(h) ==
    /\ h.msg.utf8
    /\ (allowed_devices = {} \/ DeviceOf(h) \in allowed_devices)

\* The message's device is outside a non-empty allowlist.
Rejected(h) ==
    /\ h.msg.utf8
    /\ allowed_devices # {}
    /\ DeviceOf(h) \notin allowed_devices

\* The message passed admission and its payload is unparseable.
Unparseable(h) ==
    /\ Admitted(h)
    /\ ParseTasmotaMessage(h.msg.payload, DEFAULT_FIELD_MAP).kind = "none"

\* A step of the pipeline raised while the message was handled: reading the
\* topic (device-id extraction), or parsing the payload of an admitted one.
StepRaised(h) ==
    \/ TopicRaises(h.msg)
    \/ /\ Admitted(h)
       /\ ParseTasmotaMessage(h.msg.payload, DEFAULT_FIELD_MAP).kind = "raise"

\* A step that is a call of _on_message.
Delivered == Len(handled') = Len(handled) + 1

\* ---------------------------------------------------------------- claims

\* C1: the RawReading row and the status=ok IngestionLogEntry row of a
\* message are committed together: in every reachable state of the store,
\* also after a failed insert or commit, the tables hold both rows of the
\* message (one of each) or neither.
C1_ReadingAndLogAtomic ==
    \A k \in MsgIds :
        LET oks == {l \in RowsOf(mqtt_log, k) : l.status = "ok"}
        IN  /\ (RowsOf(raw_readings, k) # {}) <=> (oks # {})
            /\ Cardinality(RowsOf(raw_readings, k)) <= 1
            /\ Cardinality(oks) <= 1

\* C1 witness: one write failed after its reading insert (rolled back) and
\* another committed both of its rows.
C1_Witness ==
    /\ \E i \in TaskIds : tasks[i].pc = "failed" /\ tasks[i].rid # 0
    /\ \E k \in MsgIds : RowsOf(raw_readings, k) # {} /\ RowsOf(mqtt_log, k) # {}

\* C2 (as claimed): readings are persisted in arrival order: of two stored
\* readings, the one whose message was delivered first was inserted and
\* committed first (it has the smaller rowid).
C2_PersistedInArrivalOrder ==
    \A r1, r2 \in raw_readings : r1.msg < r2.msg => r1.id < r2.id

\* C3 (as claimed): two store writes never interleave: while the write of
\* one message is between its first step and its commit or failure, no
\* step of another message's write has run.
C3_WritesDoNotInterleave ==
    Cardinality({i \in TaskIds : tasks[i].pc \in InProgress}) <= 1

\* C4 (as claimed): no exception escapes _on_message, whatever the topic
\* and payload, and the delivery thread keeps running.
C4_NoExceptionEscapes ==
    /\ \A k \in MsgIds : handled[k].outcome # "escaped"
    /\ delivery = "running"

\* C5: in downsample_60s mode a parsed message of a device is admitted
\* exactly when the device has no earlier admitted message or at least 60
\* seconds have passed since its last admitted one, so two admitted
\* messages of a device are at least 60 seconds apart.
C5_DownsampleGate ==
    poll_store_mode = "downsample_60s" =>
        /\ \A k \in MsgIds :
            handled[k].outcome \in {"stored", "skipped"} =>
                LET prev == {j \in 1..(k - 1) :
                                /\ handled[j].outcome = "stored"
                                /\ DeviceOf(handled[j]) = DeviceOf(handled[k])}
                    last == CHOOSE j \in prev : \A i \in prev : i <= j
                IN  (handled[k].outcome = "stored") <=>
                        (prev = {} \/ handled[k].now - handled[last].now >= 60)
        /\ \A j, k \in MsgIds :
            (/\ j < k
             /\ handled[j].outcome = "stored" /\ handled[k].outcome = "stored"
             /\ DeviceOf(handled[j]) = DeviceOf(handled[k]))
                => handled[k].now - handled[j].now >= 60

\* C5 witness: a device's message admitted, its next one rejected inside
\* the window and a later one admitted again.
C5_Witness ==
    /\ poll_store_mode = "downsample_60s"
    /\ \E i, j, k \in MsgIds :
        /\ i < j /\ j < k
        /\ DeviceOf(handled[i]) = DeviceOf(handled[j])
        /\ DeviceOf(handled[j]) = DeviceOf(handled[k])
        /\ handled[i].outcome = "stored"
        /\ handled[j].outcome = "skipped" /\ handled[j].now > handled[i].now
        /\ handled[k].outcome = "stored"

\* C6: a message whose device id is not in the non-empty allowlist is
\* discarded with no effect: handling it raises nothing, hands no write to
\* the event loop, leaves the gate and the tables as they were, and its
\* payload is not parsed (a payload whose parsing raises is dropped too);
\* the tables never hold a row of it.
C6_AllowlistDiscards ==
    [][ /\ (Delivered /\ Rejected(handled'[Len(handled')]))
            => /\ handled'[Len(handled')].outcome = "dropped"
               /\ tasks' = tasks
               /\ last_stored' = last_stored
               /\ delivery' = delivery
               /\ raw_readings' = raw_readings
               /\ mqtt_log' = mqtt_log
        /\ \A k \in 1..Len(handled') :
            Rejected(handled'[k]) =>
                /\ TasksOf(tasks', k) = {}
                /\ RowsOf(raw_readings', k) = {}
                /\ RowsOf(mqtt_log', k) = {}
      ]_vars

\* C6 witness: a message outside the allowlist whose payload would make
\* the parser raise has been handled and dropped.
C6_Witness ==
    \E k \in MsgIds :
        /\ Rejected(handled[k])
        /\ handled[k].msg.payload = PAYLOAD_BIGINT
        /\ handled[k].outcome = "dropped"

\* The log row of an unparseable message, whatever its rowid.
IsInvalidLog(l, h) ==
    /\ l.device_id = Some(DeviceOf(h))
    /\ l.status = "invalid"
    /\ l.summary = Some(UNPARSEABLE)
    /\ l.topic = Some(h.msg.topic)

\* C7: an unparseable payload of an admitted device results in exactly one
\* insert of an IngestionLogEntry (status invalid, summary "unparseable
\* payload", the device id, the topic) and in no RawReading, in both store
\* modes and whether or not the device has a last-stored time; handling it
\* leaves the downsample state unchanged.  The entry is in the table once
\* its write has committed, and the table never holds another row of the
\* message.
C7_UnparseableLogged ==
    [][ /\ (Delivered /\ Unparseable(handled'[Len(handled')]))
            => /\ handled'[Len(handled')].outcome = "invalid"
               /\ last_stored' = last_stored
               /\ Len(tasks') = Len(tasks) + 1
        /\ \A k \in 1..Len(handled') :
            Unparseable(handled'[k]) =>
                /\ Cardinality(TasksOf(tasks', k)) = 1
                /\ \A i \in TasksOf(tasks', k) :
                    /\ tasks'[i].coro.op = "insert_mqtt_log"
                    /\ (tasks'[i].pc = "done" => Cardinality(RowsOf(mqtt_log', k)) = 1)
                    /\ (tasks'[i].pc # "done" => RowsOf(mqtt_log', k) = {})
                /\ \A l \in RowsOf(mqtt_log', k) : IsInvalidLog(l, handled'[k])
                /\ RowsOf(raw_readings', k) = {}
      ]_vars

\* C7 witness: in downsample mode, with a last-stored time recorded for
\* the device, an unparseable payload of it was handled and its entry
\* committed.
C7_Witness ==
    \E k \in MsgIds :
        /\ Unparseable(handled[k])
        /\ poll_store_mode = "downsample_60s"
        /\ \E j \in 1..(k - 1) :
            handled[j].outcome = "stored" /\ DeviceOf(handled[j]) = DeviceOf(handled[k])
        /\ RowsOf(mqtt_log, k) # {}

\* C8 (as claimed): when a step of the pipeline raises, exactly one
\* IngestionLogEntry insert with status=error is made for the message, and
\* no RawReading insert.
C8_ErrorLoggedOnce ==
    \A k \in MsgIds :
        StepRaised(handled[k]) =>
            /\ Cardinality(TasksOf(tasks, k)) = 1
            /\ \A i \in TasksOf(tasks, k) :
                /\ tasks[i].coro.op = "insert_mqtt_log"
                /\ tasks[i].coro.log_status = "error"

\* A step in which the store write of some message fails.
WriteFailsStep ==
    \E i \in TaskIds : tasks[i].pc \in InProgress /\ tasks'[i].pc = "failed"

\* C9: a failed store write of a parsed and admitted message does not
\* reach the delivery context (the thread keeps running, its state is
\* untouched), the write is never retried and its reading never appears in
\* the table; a message delivered after the failure is handled as _on_message
\* handles it, and the delivery thread stops only when an exception escaped
\* _on_message itself.
C9_WriteFailureIsolated ==
    [][ /\ WriteFailsStep =>
            (delivery' = delivery /\ last_stored' = last_stored /\ handled' = handled)
        /\ \A i \in TaskIds :
            (tasks[i].pc = "failed" /\ tasks[i].coro.op = "insert_reading_and_log")
                => /\ tasks'[i].pc = "failed"
                   /\ RowsOf(raw_readings', tasks[i].msg) = {}
                   /\ RowsOf(mqtt_log', tasks[i].msg) = {}
        /\ (Delivered /\ handled'[Len(handled')].after_failure)
                => handled'[Len(handled')].outcome =
                    OnMessageResult(handled'[Len(handled')].msg, clock, last_stored,
                                    poll_store_mode, allowed_devices).outcome
        /\ (delivery' = "crashed" =>
                \E k \in 1..Len(handled') : handled'[k].outcome = "escaped")
      ]_vars

\* C9 witness: the write of one reading failed, and a message delivered
\* after the failure was admitted and its reading committed.
C9_Witness ==
    \E i, j \in TaskIds :
        /\ i < j
        /\ tasks[i].pc = "failed" /\ tasks[i].coro.op = "insert_reading_and_log"
        /\ handled[tasks[j].msg].after_failure
        /\ tasks[j].pc = "done" /\ RowsOf(raw_readings, tasks[j].msg) # {}
        /\ delivery = "running"

\* The data columns of the rows of hourly_agg: all but the surrogate rowid,
\* which INSERT OR REPLACE renews.
HourlyData(table) ==
    {[device_id |-> r.device_id, hour |-> r.hour, avg_power_w |-> r.avg_power_w,
      kwh_consumed |-> r.kwh_consumed, reading_count |-> r.reading_count,
      coverage_seconds |-> r.coverage_seconds] : r \in table}

DailyData(table) ==
    {[device_id |-> r.device_id, date |-> r.date, avg_power_w |-> r.avg_power_w,
      kwh_consumed |-> r.kwh_consumed, reading_count |-> r.reading_count] : r \in table}

BucketOf(r) == SubSeq(r.timestamp, 1, 13)
BucketReadings(d, h) ==
    {r \in raw_readings : r.device_id = d /\ BucketOf(r) = h /\ ~IsNone(r.total_in)}

\* compute_hourly_agg has run on the readings as they are now: the call
\* returned, or its statement raised.
AfterComputeHourly == last_op \in {"compute_hourly_agg", "compute_hourly_agg raised"}

\* C12 (as claimed): after compute_hourly_agg every bucket with a reading
\* that has a total_in has one hourly row, with kwh_consumed = max - min of
\* the bucket's total_in, avg_power_w = 1000 times that and reading_count =
\* the number of those readings; readings without total_in make no row.
C12_HourlyFigures ==
    AfterComputeHourly =>
        /\ \A r \in raw_readings :
            ~IsNone(r.total_in) =>
                LET group  == BucketReadings(r.device_id, BucketOf(r))
                    totals == {Val(x.total_in) : x \in group}
                    kwh    == SetMax(totals) - SetMin(totals)
                    rows   == {a \in hourly_agg :
                                a.device_id = r.device_id /\ a.hour = BucketOf(r)}
                IN  /\ Cardinality(rows) = 1
                    /\ \A a \in rows :
                        /\ a.kwh_consumed = Some(kwh)
                        /\ a.avg_power_w = Some(kwh * 1000)
                        /\ a.reading_count = Cardinality(group)
        /\ \A a \in hourly_agg : BucketReadings(a.device_id, a.hour) # {}

\* Seconds into its hour of a timestamp YYYY-MM-DDTHH:MM:SS.
SecondsInHour(ts) == 60 * Num2(ts, 15) + Num2(ts, 18)

\* C13 (as claimed): after a completed compute_hourly_agg every hourly row
\* has coverage_seconds = the seconds between the earliest and the latest
\* reading of its bucket, 0 for a bucket of one reading.
C13_CoverageSeconds ==
    last_op = "compute_hourly_agg" =>
        \A a \in hourly_agg :
            LET secs == {SecondsInHour(r.timestamp) : r \in BucketReadings(a.device_id, a.hour)}
            IN  a.coverage_seconds = Some(SetMax(secs) - SetMin(secs))

\* The hourly rows of device d on date t (YYYY-MM-DD).
HourlyOfDay(d, t) == {a \in hourly_agg : a.device_id = d /\ SubSeq(a.hour, 1, 10) = t}

\* The rows of a daily_agg table hold the figures of the hourly rows: every
\* (device_id, date) with hourly rows has one daily row with kwh_consumed =
\* the sum of their kwh_consumed, reading_count = the sum of their
\* reading_count and avg_power_w = the mean of their avg_power_w (sum over
\* number, compared as a fraction); the table has no other row.
DailyFiguresHold(daily) ==
    /\ \A a \in hourly_agg :
        LET day  == HourlyOfDay(a.device_id, SubSeq(a.hour, 1, 10))
            rows == {x \in daily : x.device_id = a.device_id
                                    /\ x.date = SubSeq(a.hour, 1, 10)}
        IN  /\ Cardinality(rows) = 1
            /\ \A x \in rows :
                /\ x.kwh_consumed = Some(SumField(day, "kwh_consumed"))
                /\ x.reading_count = SumCount(day)
                /\ ~IsNone(x.avg_power_w)
                /\ Val(x.avg_power_w)[1] * Cardinality(day)
                        = SumField(day, "avg_power_w") * Val(x.avg_power_w)[2]
    /\ \A x \in daily : HourlyOfDay(x.device_id, x.date) # {}

\* C14 (as claimed): when compute_daily_agg runs right after
\* compute_hourly_agg, every (device_id, date) of a reading with a total_in
\* has its daily row, and the daily rows hold the sums and the mean of that
\* day's hourly rows.
C14_DailyFigures ==
    [][ (AfterComputeHourly /\ last_op' \in {"compute_daily_agg", "compute_daily_agg raised"})
            => /\ \A r \in raw_readings :
                    ~IsNone(r.total_in) =>
                        \E x \in daily_agg' : /\ x.device_id = r.device_id
                                              /\ x.date = SubSeq(r.timestamp, 1, 10)
               /\ DailyFiguresHold(daily_agg')
      ]_vars

\* The days of 2024 before month m.
RECURSIVE DaysBefore(_)
DaysBefore(m) == IF m = 1 THEN 0 ELSE DaysBefore(m - 1) + MonthLengths[m - 1]

\* The instant a timestamp of 2024 names (YYYY-MM-DD, any one character,
\* HH:MM:SS), in minutes after 2024-01-01 00:00.
MinutesOf(ts) ==
    ((DaysBefore(Num2(ts, 6)) + Num2(ts, 9) - 1) * 24 + Num2(ts, 12)) * 60 + Num2(ts, 15)

\* The rows of a table whose timestamp is older than now - retention_days,
\* now being the process's local time.
OlderThanRetention(table) ==
    {r \in table : MinutesOf(r.timestamp) < (wall + tz_offset - 24 * retention_days) * 60}

\* C15 (as claimed): prune_raw_readings deletes exactly the raw readings
\* whose timestamp is older than now - retention_days, leaves the others
\* untouched and returns the number it deleted.
C15_PruneRawExact ==
    [][ (last_op' = "prune_raw_readings" /\ wall' = wall)
            => /\ raw_readings' = raw_readings \ OlderThanRetention(raw_readings)
               /\ returned' = Some(Cardinality(OlderThanRetention(raw_readings)))
      ]_vars

\* C16 (as claimed): prune_mqtt_log deletes exactly the log entries whose
\* store-assigned timestamp is older than now - retention_days, keeps the
\* newer ones and returns the number it deleted.
C16_PruneLogExact ==
    [][ (last_op' = "prune_mqtt_log" /\ wall' = wall)
            => /\ mqtt_log' = mqtt_log \ OlderThanRetention(mqtt_log)
               /\ returned' = Some(Cardinality(OlderThanRetention(mqtt_log)))
      ]_vars

\* C17: at most one run of each job is in progress at any time, and a tick
\* of a job whose previous run has not completed starts no run (it is
\* skipped).
C17_NoOverlap ==
    [][ \A j \in JobIds :
            /\ jobs'[j].instances <= 1
            /\ jobs[j].instances = 1 =>
                    /\ jobs'[j].started = jobs[j].started
                    /\ jobs'[j].instances <= jobs[j].instances ]_vars

\* A tick of a job arrived while its run was in progress and was skipped;
\* the run is still the only one.
C17_Witness ==
    \E j \in JobIds : jobs[j].skipped > 0 /\ jobs[j].instances = 1 /\ jobs[j].started = 1

\* C18: a run that fails leaves its job scheduled with no run in progress
\* and leaves the other jobs as they are, and a tick of a job with no run in
\* progress starts a run, whatever failed before.
C18_FailureKeepsTicks ==
    [][ \A j \in JobIds :
            /\ jobs'[j].failed > jobs[j].failed =>
                    /\ jobs'[j].scheduled
                    /\ jobs'[j].instances = 0
                    /\ \A k \in JobIds \ {j} : jobs'[k] = jobs[k]
            /\ jobs'[j].scheduled
            /\ (jobs[j].instances = 0
                    /\ jobs'[j].started + jobs'[j].skipped > jobs[j].started + jobs[j].skipped)
                  => (jobs'[j].started = jobs[j].started + 1 /\ jobs'[j].instances = 1)
      ]_vars

\* A job failed on one tick and is running again on a later one, while
\* another job has completed a run after that failure could have stopped it.
C18_Witness ==
    \E j \in JobIds, k \in JobIds :
        /\ j # k
        /\ jobs[j].failed > 0 /\ jobs[j].instances = 1 /\ jobs[j].started = 2
        /\ jobs[k].done > 0

\* A payload that is a JSON object with the valid Time 2024-01-15T10:00:00.
HasValidTime(p) == p.t = "obj" /\ "Time" \in DOMAIN p.m /\ p.m.Time = JStr(TS_10_00)

\* C19 (as claimed): parse_tasmota_message never raises, so no delivery ends
\* in the handler's except branch, and a payload with a valid Time is a
\* successful parse whatever its mapped fields hold.
C19_ParseNeverRaises ==
    \A k \in 1..Len(handled) :
        /\ handled[k].outcome # "error"
        /\ HasValidTime(handled[k].msg.payload) => handled[k].outcome \in {"stored", "skipped"}

\* The first 32 characters of a text.
First32(s) == [i \in 1..(IF Len(s) < 32 THEN Len(s) ELSE 32) |-> s[i]]

\* A text without its ASCII control characters.
RECURSIVE WithoutControl(_)
WithoutControl(s) ==
    IF s = <<>> THEN <<>>
    ELSE IF Head(s) \in ControlChars THEN WithoutControl(Tail(s))
    ELSE <<Head(s)>> \o WithoutControl(Tail(s))

\* YYYY-MM-DDTHH:MM:SS, "d" standing for a digit.
IsoShape ==
    <<"d","d","d","d","-","d","d","-","d","d","T","d","d",":","d","d",":","d","d">>

BeginsWithIso(s) ==
    /\ Len(s) >= Len(IsoShape)
    /\ \A i \in 1..Len(IsoShape) :
        IF IsoShape[i] = "d" THEN s[i] \in Digits ELSE s[i] = IsoShape[i]

\* The Time of a JSON object is absent, or is no text, or does not begin
\* with the pattern once truncated to 32 characters and freed of control
\* characters.
TimeUnacceptable(p) ==
    \/ "Time" \notin DOMAIN p.m
    \/ p.m.Time.t # "str"
    \/ ~BeginsWithIso(WithoutControl(First32(p.m.Time.s)))

LeafOf(p, path) ==
    IF Len(path) = 2
    THEN IF path[1] \in DOMAIN p.m /\ p.m[path[1]].t = "obj"
            /\ path[2] \in DOMAIN p.m[path[1]].m
         THEN Some(p.m[path[1]].m[path[2]])
         ELSE None
    ELSE None

\* C21 (as claimed): for every mapped path of every payload that reached
\* the field resolver, the resolver does not raise; it returns the number
\* when the path leads to a finite number and "no value" otherwise.
C21_ResolverNeverRaises ==
    \A k \in 1..Len(handled) :
        LET p == handled[k].msg.payload
        IN  HasValidTime(p) =>
                \A f \in DOMAIN DEFAULT_FIELD_MAP :
                    LET path == DEFAULT_FIELD_MAP[f]
                        leaf == LeafOf(p, path)
                    IN  /\ ~ResolveRaises(p, path)
                        /\ ResolveDotted(p, path) =
                              IF ~IsNone(leaf) /\ Val(leaf).t = "num"
                              THEN Some(Val(leaf).v) ELSE None

\* The first n characters of a text.
FirstN(s, n) == [i \in 1..(IF Len(s) < n THEN Len(s) ELSE n) |-> s[i]]

\* The device id the topic's segments give: segment index 1 of at least
\* three, else the whole topic; truncated to 64 characters and freed of
\* control characters.
SegmentDeviceId(topic) ==
    LET parts == Split(topic, "/")
        raw   == IF Len(parts) >= 3 THEN parts[2] ELSE topic
    IN  WithoutControl(FirstN(raw, 64))

\* C22 (as claimed): the device id of every stored reading is the one the
\* segments of its message's topic give, has at most 64 characters and no
\* control character.
C22_DeviceIdFromTopic ==
    \A r \in raw_readings :
        r.msg \in 1..Len(handled) =>
            /\ r.device_id = SegmentDeviceId(handled[r.msg].msg.topic)
            /\ Len(r.device_id) <= 64
            /\ \A i \in 1..Len(r.device_id) : r.device_id[i] \notin ControlChars

\* C23: a delivery passes the allowlist check if and only if the allowlist
\* is empty or contains the message's device id, and with an empty or blank
\* allowed_devices setting no delivery is dropped.
C23_AllowlistAdmission ==
    /\ \A k \in 1..Len(handled) :
        handled[k].outcome # "dropped"
            <=> (allowed_devices = {}
                 \/ ExtractDeviceId(handled[k].msg.topic) \in allowed_devices)
    /\ (\A i \in 1..Len(allowed_setting) : allowed_setting[i] \in Whitespace)
            => \A k \in 1..Len(handled) : handled[k].outcome # "dropped"

\* With a setting of two ids written with blanks around them, a reading of
\* the second is stored.
C23_Witness ==
    /\ Len(allowed_setting) > Len(M1) + Len(M2) + 1
    /\ allowed_devices = {M1, M2}
    /\ \E r \in raw_readings : r.device_id = M2

\* A text of at most 256 characters without control characters.
IsSanitized256(o) ==
    IsNone(o) \/ (Len(Val(o)) <= 256 /\ \A i \in 1..Len(Val(o)) : Val(o)[i] \notin ControlChars)

\* C27 (as claimed): every log entry the message handler has written,
\* whatever its status, has a summary and a topic of at most 256 characters
\* without control characters.
C27_LogTextSanitized ==
    \A x \in mqtt_log :
        x.msg \in 1..Len(handled) =>
            /\ x.status \in {"ok", "invalid", "error"}
            /\ IsSanitized256(x.summary)
            /\ IsSanitized256(x.topic)

\* C29: a delivery that the downsample gate rejects hands nothing to the
\* event loop, writes no row and leaves every device's last-accepted time
\* as it was.
C29_SkipHasNoEffect ==
    [][ (Delivered /\ handled'[Len(handled')].outcome = "skipped")
            => /\ last_stored' = last_stored
               /\ tasks' = tasks
               /\ raw_readings' = raw_readings
               /\ mqtt_log' = mqtt_log ]_vars

\* A device's message was admitted, its next one rejected inside the
\* window, and a third admitted less than 60 seconds after the rejected one.
C29_Witness ==
    \E i, j, k \in MsgIds :
        /\ i < j /\ j < k
        /\ DeviceOf(handled[i]) = DeviceOf(handled[j])
        /\ DeviceOf(handled[j]) = DeviceOf(handled[k])
        /\ handled[i].outcome = "stored"
        /\ handled[j].outcome = "skipped"
        /\ handled[k].outcome = "stored"
        /\ handled[k].now - handled[j].now < 60

\* C30: a delivery changes the last-accepted time of no device but its
\* own, and a message is rejected by the gate only when a message of its
\* own device was admitted less than 60 seconds before it.
C30_GatePerDevice ==
    [][ Delivered =>
            LET k == Len(handled')
                h == handled'[k]
            IN  /\ \A d \in Devices \ {DeviceOf(h)} : last_stored'[d] = last_stored[d]
                /\ h.outcome = "skipped" =>
                        \E j \in 1..(k - 1) :
                            /\ handled[j].outcome = "stored"
                            /\ DeviceOf(handled[j]) = DeviceOf(h)
                            /\ h.now - handled[j].now < 60 ]_vars

\* A message of one device was admitted inside the window of another
\* device, whose own next message was then rejected.
C30_Witness ==
    \E i, j, k \in MsgIds :
        /\ i < j /\ j < k
        /\ DeviceOf(handled[i]) # DeviceOf(handled[j])
        /\ DeviceOf(handled[i]) = DeviceOf(handled[k])
        /\ handled[i].outcome = "stored"
        /\ handled[j].outcome = "stored" /\ handled[j].now - handled[i].now < 60
        /\ handled[k].outcome = "skipped"

\* C26: every step leaves every committed raw reading in the table as it
\* is, except a completed run of prune_raw_readings, which only removes
\* rows.
C26_RawAppendOnly ==
    [][ \/ raw_readings \subseteq raw_readings'
        \/ /\ jobs'["prune_raw"].done = jobs["prune_raw"].done + 1
           /\ raw_readings' \subseteq raw_readings ]_vars

\* The reading of the earlier run is still in the table after a further
\* message was ingested and a job other than prune_raw completed a run.
C26_Witness ==
    /\ \E r \in raw_readings : r.msg = 0
    /\ \E r \in raw_readings : r.msg = 1
    /\ \E j \in JobIds \ {"prune_raw"} : jobs[j].done > 0

\* C28: every write handed to the event loop eventually commits or fails,
\* and every run of a job eventually ends, however the writes and the runs
\* contend for the write lock.
C28_NoIndefiniteWait ==
    /\ \A i \in 1..MaxStoreMsgs :
        (i <= Len(tasks) /\ tasks[i].pc \notin {"done", "failed"})
            ~> (i <= Len(tasks) /\ tasks[i].pc \in {"done", "failed"})
    /\ \A j \in JobIds : (jobs[j].instances > 0) ~> (jobs[j].instances = 0)

\* An ingestion write is waiting for the write lock that a run of a job
\* holds.
C28_Witness ==
    \E i \in 1..Len(tasks) :
        /\ tasks[i].pc \in {"insert_reading", "insert_log"}
        /\ writer < 0
        /\ \E j \in JobIds : writer = JobWriter[j] /\ jobs[j].instances = 1


\* The year, the month and day, and the time of day of an ISO timestamp.
YearOf(ts) == 100 * Num2(ts, 1) + Num2(ts, 3)
MonthDayOf(ts) == 100 * Num2(ts, 6) + Num2(ts, 9)
TimeOf(ts) == 10000 * Num2(ts, 12) + 100 * Num2(ts, 15) + Num2(ts, 18)

\* Timestamp a is an earlier moment than timestamp b.
Earlier(a, b) ==
    \/ YearOf(a) < YearOf(b)
    \/ YearOf(a) = YearOf(b) /\ MonthDayOf(a) < MonthDayOf(b)
    \/ YearOf(a) = YearOf(b) /\ MonthDayOf(a) = MonthDayOf(b) /\ TimeOf(a) < TimeOf(b)

\* The readings of the device the last get_consumption_stats was called
\* for that have a total_in.
StatRows == {r \in raw_readings : r.device_id = returned.device_id /\ r.total_in # None}

\* Those on or after January 1 of the year of the call, and all of them
\* when there is none.
StatBase ==
    IF \E r \in StatRows : YearOf(r.timestamp) >= returned.year
    THEN {r \in StatRows : YearOf(r.timestamp) >= returned.year}
    ELSE StatRows

\* The differences the claim allows, in thousandths of a kWh: latest
\* total_in minus the earliest of StatBase.
YearToDate ==
    {Val(l.total_in) - Val(f.total_in) :
        l \in {r \in StatRows : \A x \in StatRows : ~Earlier(r.timestamp, x.timestamp)},
        f \in {r \in StatBase : \A x \in StatBase : ~Earlier(x.timestamp, r.timestamp)}}

\* C25 as stated: kwh_this_year is the latest total_in minus the earliest
\* total_in on or after January 1 of the year (the earliest of all when
\* there is none), and None when the device has no reading with a total_in.
\* kwh_this_year counts hundredths of a kWh, total_in thousandths.
C25_YearToDateExact ==
    last_op = "get_consumption_stats" =>
        IF StatRows = {} THEN returned.kwh_this_year = None
        ELSE /\ returned.kwh_this_year # None
             /\ \E d \in YearToDate : 10 * Val(returned.kwh_this_year) = d

\* C25 amended: kwh_this_year is that difference rounded to two decimal
\* places, and None when the device has no reading with a total_in.
C25_YearToDateRounded ==
    last_op = "get_consumption_stats" =>
        IF StatRows = {} THEN returned.kwh_this_year = None
        ELSE /\ returned.kwh_this_year # None
             /\ \E d \in YearToDate :
                    /\ 10 * Val(returned.kwh_this_year) - d <= 5
                    /\ d - 10 * Val(returned.kwh_this_year) <= 5

\* A call for a year with a reading before and readings after its
\* January 1 whose difference has a third decimal, and has been rounded.
C25_Witness ==
    /\ last_op = "get_consumption_stats"
    /\ \E r \in StatRows : YearOf(r.timestamp) < returned.year
    /\ \E r \in StatRows : YearOf(r.timestamp) >= returned.year
    /\ returned.kwh_this_year # None
    /\ \A d \in YearToDate : d % 10 # 0 /\ 10 * Val(returned.kwh_this_year) # d


\* The days the device the last get_coverage_stats was called for has every
\* hour of, 00 to 23, in hourly_agg with at least three readings each.
CoveredDays ==
    {d \in {SubSeq(r.hour, 1, 10) : r \in hourly_agg} :
        \A h \in 0..23 :
            \E r \in hourly_agg :
                /\ r.device_id = returned.device_id
                /\ r.hour = HourText(d, h)
                /\ r.reading_count >= 3}

\* C24: days_with_full_coverage counts exactly the days of which hourly_agg
\* holds all 24 hourly buckets of the device with reading_count >= 3 each;
\* with no row of the device the count is 0 and first_reading_date is None.
C24_FullCoverageDays ==
    last_op = "get_coverage_stats" =>
        /\ returned.days_with_full_coverage = Cardinality(CoveredDays)
        /\ (\A r \in hourly_agg : r.device_id # returned.device_id) =>
                /\ returned.days_with_full_coverage = 0
                /\ returned.first_reading_date = None

\* A call that counted one day and left out another day of the device:
\* one with an hour missing or with a bucket of fewer than three readings.
C24_Witness ==
    /\ last_op = "get_coverage_stats"
    /\ returned.days_with_full_coverage = 1
    /\ \E r \in hourly_agg :
        /\ r.device_id = returned.device_id
        /\ SubSeq(r.hour, 1, 10) \notin CoveredDays


C33_GateOnlyInOnMessage ==
    [][ last_stored' # last_stored =>
            /\ Delivered
            /\ tasks' \in {tasks} \cup {Append(tasks, t) : t \in {tasks'[Len(tasks')]}}
            /\ jobs' = jobs
            /\ writer' = writer
      ]_vars

\* C33 witness: the map holds a device's time while a write of the event
\* loop has failed and a scheduled job has run.
C33_Witness ==
    /\ \E d \in Devices : last_stored[d] # None
    /\ \E i \in TaskIds : tasks[i].pc = "failed"
    /\ \E j \in JobIds : jobs[j].done + jobs[j].failed > 0


\* The deliveries whose payload is an object with the empty string as Time.
EmptyTimeMsgs(h) ==
    {k \in 1..Len(h) :
        /\ h[k].msg.payload.t = "obj"
        /\ "Time" \in DOMAIN h[k].msg.payload.m
        /\ h[k].msg.payload.m.Time.t = "str"
        /\ h[k].msg.payload.m.Time.s = TIME_EMPTY}

InWindowOf(i) ==
    {j \in MsgIds :
        /\ j > i
        /\ DeviceOf(handled[j]) = DeviceOf(handled[i])
        /\ handled[j].now - handled[i].now < 60}

\* C36: in downsample_60s mode an admitted message is in the gate whatever
\* becomes of its write: the gate holds a time no earlier than its arrival
\* also after the write failed, every message of the device arriving less
\* than 60 seconds after it is rejected with no write handed over, and
\* when its write failed the store has no reading of the device from it or
\* from its window.
C36_GateNotRolledBack ==
    poll_store_mode = "downsample_60s" =>
        \A i \in MsgIds :
            handled[i].outcome = "stored" =>
                /\ last_stored[DeviceOf(handled[i])] # None
                /\ Val(last_stored[DeviceOf(handled[i])]) >= handled[i].now
                /\ \A j \in InWindowOf(i) :
                        /\ handled[j].outcome = "skipped"
                        /\ TasksOf(tasks, j) = {}
                        /\ RowsOf(raw_readings, j) = {}
                /\ (\A t \in TasksOf(tasks, i) : tasks[t].pc = "failed") =>
                        \A r \in raw_readings : r.msg \notin {i} \cup InWindowOf(i)

\* C36 witness: an admitted message's write has failed and a message of
\* the device arriving 59 seconds after it was rejected.
C36_Witness ==
    /\ poll_store_mode = "downsample_60s"
    /\ \E i, j \in MsgIds :
        /\ handled[i].outcome = "stored"
        /\ \E t \in TasksOf(tasks, i) : tasks[t].pc = "failed"
        /\ j \in InWindowOf(i) /\ handled[j].now = handled[i].now + 59
        /\ handled[j].outcome = "skipped"
        /\ raw_readings = {}


\* An aggregate row's values: everything but the rowid, which INSERT OR
\* REPLACE renews.
ValuesOf(a) == [a EXCEPT !.id = 0]
ValuesIn(table) == {ValuesOf(a) : a \in table}

DayReadings(d, t) ==
    {r \in raw_readings :
        r.device_id = d /\ SubSeq(r.timestamp, 1, 10) = t /\ ~IsNone(r.total_in)}
DayHours(d, t) == {BucketOf(r) : r \in DayReadings(d, t)}
TotalsOf(d, h) == {Val(r.total_in) : r \in BucketReadings(d, h)}

\* What the register advanced between the last reading of each bucket in hs
\* and the first reading of the day's next bucket.
RECURSIVE BetweenHours(_, _, _)
BetweenHours(d, t, hs) ==
    IF hs = {} THEN 0
    ELSE LET h     == CHOOSE x \in hs : TRUE
             later == {x \in DayHours(d, t) : TextLess(h, x)}
             next  == CHOOSE x \in later : \A y \in later : x = y \/ TextLess(x, y)
         IN  (IF later = {} THEN 0
              ELSE SetMin(TotalsOf(d, next)) - SetMax(TotalsOf(d, h)))
             + BetweenHours(d, t, hs \ {h})

\* The device's total_in never decreases in timestamp order.
NonDecreasing(d) ==
    \A r, q \in raw_readings :
        (/\ r.device_id = d /\ q.device_id = d
         /\ ~IsNone(r.total_in) /\ ~IsNone(q.total_in)
         /\ TextLess(r.timestamp, q.timestamp))
            => Val(r.total_in) <= Val(q.total_in)

ErodeHours == {SubSeq(ErodeReadings[i][2], 1, 13) : i \in 1..Len(ErodeReadings)}

\* The hourly row of device d and hour h counts at least n readings.
CountedIn(d, h, n) ==
    \E a \in hourly_agg : a.device_id = d /\ a.hour = h /\ a.reading_count >= n

\* C38 (as claimed): with the hourly job's ticks coming again and again,
\* whenever a bucket holds n stored readings with a total_in, its hourly
\* row eventually counts n readings or more, also when prune_raw runs in
\* between.
C38_EventuallyCounted ==
    \A h \in ErodeHours : \A n \in 1..2 :
        (HourlyTickAllowed /\ Cardinality(BucketReadings(M1, h)) = n)
            ~> CountedIn(M1, h, n)


\* Every write of a reading in queue ts is settled against tables raw and
\* log: it is done and both of its rows are there, one of each, or it is
\* not done and the tables have no row of its message.
WritesSettled(ts, raw, log) ==
    \A i \in 1..Len(ts) :
        ts[i].coro.op = "insert_reading_and_log" =>
            LET rows == RowsOf(raw, ts[i].msg)
                oks  == {l \in RowsOf(log, ts[i].msg) : l.status = "ok"}
            IN  IF ts[i].pc = "done"
                THEN Cardinality(rows) = 1 /\ Cardinality(oks) = 1
                ELSE rows = {} /\ oks = {}

\* C34: once the application has shut down (stop's own "disconnected" log
\* entry handed over), no step handles a message or hands a write to the
\* event loop, no job run starts or is in progress,
\* and the writes handed over before are, before and after every step,
\* committed with both rows or without any row in the tables; a table
\* changes only by the commit of such a write.
C34_QuietAfterShutdown ==
    [][ delivery = "stopped" =>
            /\ delivery' = "stopped"
            /\ handled' = handled
            /\ last_stored' = last_stored
            /\ Len(tasks') = Len(tasks)
            /\ \A j \in JobIds :
                    /\ jobs'[j].started = jobs[j].started
                    /\ jobs'[j].instances = 0
            /\ WritesSettled(tasks, raw_readings, mqtt_log)
            /\ WritesSettled(tasks', raw_readings', mqtt_log')
            /\ <<raw_readings', mqtt_log'>> # <<raw_readings, mqtt_log>> =>
                    \E i \in TaskIds : tasks[i].pc = "commit" /\ tasks'[i].pc = "done"
            /\ <<hourly_agg', daily_agg'>> = <<hourly_agg, daily_agg>>
      ]_vars

\* C34 witness: the application has shut down while a job run was in
\* progress, and the write handed over before is committed with both rows.
C34_Witness ==
    /\ delivery = "stopped"
    /\ \E j \in JobIds : jobs[j].started > jobs[j].done + jobs[j].failed
    /\ \E i \in TaskIds :
        /\ tasks[i].pc = "done"
        /\ RowsOf(raw_readings, tasks[i].msg) # {}
        /\ RowsOf(mqtt_log, tasks[i].msg) # {}

====
